---- MODULE Spec2Model ----
(***************************************************************************)
(* Model of the dispatch core of cnotch/scheduler (package scheduler).     *)
(*                                                                         *)
(* One dispatch goroutine (Scheduler.run) owns the job heap.  Callers      *)
(* reach it only through the unbuffered channels add, remove and snapshot  *)
(* and through the context that Shutdown cancels.  Every firing runs the   *)
(* job body in a goroutine of its own (Scheduler.safeRun).                 *)
(*                                                                         *)
(* Time is counted in units of minInterval (1 ms).  The zero time.Time is  *)
(* ZeroTime; every instant the clock takes is later than it.               *)
(***************************************************************************)
EXTENDS Integers, Sequences, FiniteSets, TLC

\* ---------------------------------------------------------------- bounds
MaxJobs == 2        \* handles that are ever submitted
StartTime == 2      \* the clock value at construction
MaxTicks == 1       \* ticks the clock takes after construction

MaxInstant == 3     \* the latest instant of a schedule evaluated on its own
ZeroTime == 0       \* time.Time{}: IsZero() holds of it alone
minInterval == 1    \* the period floor, one unit of model time

JobIds == 1..MaxJobs
MaxTime == StartTime + MaxTicks

\* The schedules the application submits: afterSchedule and periodSchedule
\* values as Scheduler.After and Scheduler.Period construct them.
AfterSchedules == {[kind |-> "after", delay |-> d, period |-> 0, called |-> FALSE] :
                      d \in {1}}
\* The initial delays and the periods Period is called with; the shorter
\* period is below the floor.
Delays == {0, 1}
Periods == {minInterval - 1, minInterval}
periodSchedule(d, p) == [kind |-> "period", delay |-> d, period |-> p, called |-> FALSE]
PeriodSchedules == {periodSchedule(d, p) : d \in Delays, p \in Periods \ {minInterval - 1}}
\* A ScheduleFunc that has no instant at all: its Next is the zero time.
EmptySchedules == {[kind |-> "empty", delay |-> 0, period |-> 0, called |-> FALSE]}
Schedules == AfterSchedules \cup PeriodSchedules \cup EmptySchedules
NoSchedule == [kind |-> "none", delay |-> 0, period |-> 0, called |-> FALSE]

PanicHandlers == {"log", "cancel"}

VARIABLES
    clock,          \* time.Now()
    ctxDone,        \* s.ctx is cancelled
    loopPc,         \* where Scheduler.run stands
    jobs,           \* run's local heap: the sequence of enqueued handles
    index,          \* ManagedJob.index
    next,           \* ManagedJob.next
    lockedTime,     \* ManagedJob.prevTime and nextTime, what PrevTime() and NextTime() read
    schelule,       \* ManagedJob.schelule, the schedule with its called flag
    count,          \* s.count
    terminated,     \* s.terminated
    closed,         \* which of the channels add, remove, snapshot are closed
    wg,             \* the counter of s.wg
    panicHandler,   \* s.panicHandler: what the installed handler does
    subPc,          \* per handle: the Schedule call that creates it
    handling,       \* per handle: calls of the panic handler in progress
    appCancel,      \* the handle the application is blocked in Cancel's send on, or 0
    cancelled,      \* per handle: the loop has received a Cancel send on it
    running,        \* per handle: job bodies in flight
    jobsPc,         \* the caller of Jobs()
    replyChan,      \* the buffered reply channel of the Jobs() call
    jobsResult,     \* the result variable of the latest Jobs() call
    addedAtCall,    \* handles whose submit had returned when Jobs() was called
    cancelledAtCall,\* handles whose Cancel had returned when Jobs() was called
    waitPc,         \* the caller of ShutdownAndWait
    timer,          \* the instant the loop's timer is due
    escaped,        \* operations whose panic reached their caller
    call            \* a schedule evaluated on its own: operands, instant and result

vars == <<clock, ctxDone, loopPc, jobs, index, next, lockedTime, schelule, count, terminated,
          closed, wg, panicHandler, subPc, handling, appCancel, cancelled, running, jobsPc, replyChan, jobsResult, addedAtCall,
          cancelledAtCall, waitPc, timer, escaped, call>>

\* ------------------------------------------------------------- schedules
\* Fault variant: afterSchedule.Next without the test of its called flag.
afterNextRepeats(at, t) ==
    [time |-> t + at.delay, sched |-> [at EXCEPT !.called = TRUE]]

\* afterSchedule.Next: the instant t + delay on the first call, the zero time
\* on every later one.  The result is the instant and the schedule afterwards.
afterNext(at, t) ==
    IF at.called
    THEN [time |-> ZeroTime, sched |-> at]
    ELSE [time |-> t + at.delay, sched |-> [at EXCEPT !.called = TRUE]]

\* Fault variant: periodSchedule.Next adds the period twice.
periodNextSkips(pt, t) ==
    LET d == IF pt.called THEN 2 * pt.period ELSE pt.delay
    IN  [time |-> t + d, sched |-> [pt EXCEPT !.called = TRUE]]

\* Fault variant: a negative initial delay is taken as zero.
periodNextClamped(pt, t) ==
    LET d == IF pt.called THEN pt.period ELSE IF pt.delay < 0 THEN 0 ELSE pt.delay
    IN  [time |-> t + d, sched |-> [pt EXCEPT !.called = TRUE]]

\* periodSchedule.Next: t + initialDelay on the first call, t + period later.
periodNext(pt, t) ==
    LET d == IF pt.called THEN pt.period ELSE pt.delay
    IN  [time |-> t + d, sched |-> [pt EXCEPT !.called = TRUE]]

\* ScheduleFunc.Next of a function that returns the zero time.
emptyNext(sch, t) == [time |-> ZeroTime, sched |-> sch]

\* Fault variant: Next gives the instant and leaves the schedule as it was,
\* its called flag not set.
ScheduleNextUnmarked(sch, t) ==
    [time |-> (CASE sch.kind = "after" -> afterNext(sch, t)
                 [] sch.kind = "period" -> periodNext(sch, t)
                 [] OTHER -> emptyNext(sch, t)).time,
     sched |-> sch]

\* Schedule.Next, dispatched on the dynamic type of the schedule.
ScheduleNext(sch, t) ==
    CASE sch.kind = "after" -> afterNext(sch, t)
      [] sch.kind = "period" -> periodNext(sch, t)
      [] OTHER -> emptyNext(sch, t)

\* Fault variant: a test for the zero time that never finds it.
IsZeroNever(t) == FALSE

IsZero(t) == t = ZeroTime

\* ------------------------------------------------------------ job queue
\* A queue value q is [jobs, index, next, lockedTime]: the heap slice and the two
\* ManagedJob fields the heap reads and writes.  Slots are numbered from 0.
At(q, i) == q.jobs[i + 1]
QLen(q) == Len(q.jobs)

\* jobQueue.Less: the earlier next fire time has priority.
Less(q, i, j) == q.next[At(q, i)] < q.next[At(q, j)]

\* jobQueue.Swap: exchanges two slots and rewrites both back-references.
Swap(q, i, j) ==
    [q EXCEPT !.jobs = [@ EXCEPT ![i + 1] = At(q, j), ![j + 1] = At(q, i)],
              !.index = [@ EXCEPT ![At(q, i)] = j, ![At(q, j)] = i]]

\* jobQueue.Push: appends the handle and records its slot.
QPush(q, x) ==
    [q EXCEPT !.jobs = Append(@, x), !.index = [@ EXCEPT ![x] = QLen(q)]]

\* jobQueue.Pop: ejects the last slot; the ejected handle gets index -1.
QPop(q) ==
    LET n == QLen(q)
    IN  [q EXCEPT !.jobs = SubSeq(@, 1, n - 1), !.index = [@ EXCEPT ![At(q, n - 1)] = -1]]

\* Go's (j - 1) / 2 truncates toward zero, so the root is its own parent.
Parent(j) == IF j = 0 THEN 0 ELSE (j - 1) \div 2

\* container/heap.up
RECURSIVE up(_, _)
up(q, j) ==
    LET i == Parent(j)
    IN  IF i = j \/ ~Less(q, j, i) THEN q ELSE up(Swap(q, i, j), i)

\* container/heap.down on the first n slots, from slot i; the result is the
\* queue and the slot the element came to rest in.
RECURSIVE downFrom(_, _, _)
downFrom(q, i, n) ==
    LET j1 == 2 * i + 1
        j2 == j1 + 1
        j  == IF j2 < n /\ Less(q, j2, j1) THEN j2 ELSE j1
    IN  IF j1 >= n THEN [q |-> q, slot |-> i]
        ELSE IF ~Less(q, j, i) THEN [q |-> q, slot |-> i]
        ELSE downFrom(Swap(q, i, j), j, n)

down(q, i0, n) ==
    LET r == downFrom(q, i0, n) IN [q |-> r.q, moved |-> r.slot > i0]

\* container/heap.Push
heapPush(q, x) == up(QPush(q, x), QLen(q))

\* container/heap.Pop
heapPop(q) ==
    LET n == QLen(q) - 1 IN QPop(down(Swap(q, 0, n), 0, n).q)

\* container/heap.Fix
heapFix(q, i) ==
    LET d == down(q, i, QLen(q)) IN IF d.moved THEN d.q ELSE up(d.q, i)

\* container/heap.Remove
heapRemove(q, i) ==
    LET n == QLen(q) - 1
        s == Swap(q, i, n)
        d == down(s, i, n)
    IN  IF n = i THEN QPop(q)
        ELSE QPop(IF d.moved THEN d.q ELSE up(d.q, i))

\* Fault variant: prevTime is set after next has been overwritten.
setNextLate(q, j, t) ==
    [q EXCEPT !.lockedTime = [@ EXCEPT ![j] = [prev |-> t, next |-> t]],
              !.next = [@ EXCEPT ![j] = t]]

\* ManagedJob.setNext: prevTime takes the fire time that was next, then next
\* and nextTime take the new one.
setNext(q, j, t) ==
    [q EXCEPT !.lockedTime = [@ EXCEPT ![j] = [prev |-> q.next[j], next |-> t]],
              !.next = [@ EXCEPT ![j] = t]]

\* jobQueue.updateNext: writes the new fire time in place and restores the heap.
updateNext(q, j, t) == heapFix(setNext(q, j, t), q.index[j])

\* ------------------------------------------------------------ the state
Range(f) == {f[i] : i \in DOMAIN f}
Channels == {"add", "remove", "snapshot"}

\* time.Duration(100000 * time.Hour), the timer of an empty heap, counted in
\* seconds to stay within TLC's integers: later than every instant of the clock.
FarFuture == 100000 * 3600

\* The queue the dispatch loop works on.
Queue == [jobs |-> jobs, index |-> index, next |-> next, lockedTime |-> lockedTime]

\* No schedule is under evaluation on its own.
NoCall == [op |-> "none"]

\* New: the scheduler after construction with one of the given panic handlers
\* installed, the dispatch goroutine started.
Start(handlers) ==
    /\ clock = StartTime
    /\ ctxDone = FALSE
    /\ loopPc = "top"
    /\ jobs = <<>>
    /\ index = [j \in JobIds |-> 0]
    /\ next = [j \in JobIds |-> ZeroTime]
    /\ lockedTime = [j \in JobIds |-> [prev |-> ZeroTime, next |-> ZeroTime]]
    /\ schelule = [j \in JobIds |-> NoSchedule]
    /\ count = 0
    /\ terminated = FALSE
    /\ closed = {}
    /\ wg = 1
    /\ panicHandler \in handlers
    /\ subPc = [j \in JobIds |-> "idle"]
    /\ handling = [j \in JobIds |-> 0]
    /\ appCancel = 0
    /\ cancelled = [j \in JobIds |-> FALSE]
    /\ running = [j \in JobIds |-> 0]
    /\ jobsPc = "idle"
    /\ replyChan = <<>>
    /\ jobsResult = <<>>
    /\ addedAtCall = {}
    /\ cancelledAtCall = {}
    /\ waitPc = "idle"
    /\ timer = 0
    /\ escaped = {}
    /\ call = NoCall

Init == Start(PanicHandlers)

loopVars == <<loopPc, jobs, index, next, lockedTime, schelule, count, terminated, closed, timer>>
callVars == <<subPc, appCancel, cancelled, escaped>>
snapVars == <<jobsPc, replyChan, jobsResult, addedAtCall, cancelledAtCall>>
workVars == <<running, handling, wg>>

\* ------------------------------------------------------------ the clock
Tick ==
    /\ clock < MaxTime
    /\ clock' = clock + 1
    /\ UNCHANGED <<ctxDone, loopVars, callVars, snapVars, workVars, panicHandler, call, waitPc>>

\* ------------------------------------------------------ the dispatch loop
Max(a, b) == IF a >= b THEN a ELSE b

\* Fault variant: the timer is armed for the far future whatever the heap
\* holds.
LoopTopNoDeadline ==
    /\ loopPc = "top"
    /\ count' = Len(jobs)
    /\ timer' = clock + FarFuture
    /\ loopPc' = "select"
    /\ UNCHANGED <<clock, ctxDone, jobs, index, next, lockedTime, schelule, terminated, closed,
                   callVars, snapVars, workVars, panicHandler, call, waitPc>>

\* run, from the top of the loop to the select: publishes the heap size and
\* arms the timer for the earliest deadline (at once when it has passed).
LoopTop ==
    /\ loopPc = "top"
    /\ count' = Len(jobs)
    /\ timer' = IF Len(jobs) > 0 THEN Max(next[jobs[1]], clock) ELSE clock + FarFuture
    /\ loopPc' = "select"
    /\ UNCHANGED <<clock, ctxDone, jobs, index, next, lockedTime, schelule, terminated, closed,
                   callVars, snapVars, workVars, panicHandler, call, waitPc>>

\* Fault variant: the go statement without the wg.Add(1) before it.
LaunchNoAdd(st, j) ==
    [st EXCEPT !.running = [@ EXCEPT ![j] = @ + 1],
               !.launched = Append(@, <<j, st.q.next[j]>>)]

\* safeRun is started for handle j: wg.Add(1) and the go statement.
Launch(st, j) ==
    [st EXCEPT !.running = [@ EXCEPT ![j] = @ + 1], !.wg = @ + 1,
               !.launched = Append(@, <<j, st.q.next[j]>>)]

\* Fault variant: a job whose schedule has ended is left at the root with the
\* zero time written into it, and the pass ends there.
RECURSIVE runExpiredJobsKeepsEnded(_, _)
runExpiredJobsKeepsEnded(now, st) ==
    IF QLen(st.q) = 0 THEN st
    ELSE LET j == At(st.q, 0)
             r == ScheduleNext(st.schelule[j], st.q.next[j])
             l == Launch(st, j)
         IN  IF st.q.next[j] > now THEN st
             ELSE IF IsZero(r.time)
                  THEN [l EXCEPT !.schelule = [@ EXCEPT ![j] = r.sched],
                                 !.q = setNext(st.q, j, r.time)]
                  ELSE runExpiredJobsKeepsEnded(now,
                         [l EXCEPT !.schelule = [@ EXCEPT ![j] = r.sched],
                                   !.q = updateNext(st.q, j, r.time)])

\* Fault variant: the new fire time is written in place and the heap is not
\* fixed afterwards.
RECURSIVE runExpiredJobsNoFix(_, _)
runExpiredJobsNoFix(now, st) ==
    IF QLen(st.q) = 0 THEN st
    ELSE LET j == At(st.q, 0)
             r == ScheduleNext(st.schelule[j], st.q.next[j])
             l == Launch(st, j)
         IN  IF st.q.next[j] > now THEN st
             ELSE runExpiredJobsNoFix(now,
                    [l EXCEPT !.schelule = [@ EXCEPT ![j] = r.sched],
                              !.q = IF IsZero(r.time) THEN heapPop(st.q)
                                    ELSE setNext(st.q, j, r.time)])

\* Fault variant: a root whose fire time is the instant delivered is taken as
\* not yet due.
RECURSIVE runExpiredJobsStrict(_, _)
runExpiredJobsStrict(now, st) ==
    IF QLen(st.q) = 0 THEN st
    ELSE LET j == At(st.q, 0)
             r == ScheduleNext(st.schelule[j], st.q.next[j])
             l == Launch(st, j)
         IN  IF st.q.next[j] >= now THEN st
             ELSE runExpiredJobsStrict(now,
                    [l EXCEPT !.schelule = [@ EXCEPT ![j] = r.sched],
                              !.q = IF IsZero(r.time) THEN heapPop(st.q)
                                    ELSE updateNext(st.q, j, r.time)])

\* runExpiredJobs: st is [q, schelule, running, wg, launched], launched being
\* the go statements of the pass in their order, each with the job and the
\* instant it was due at.  Launches the root while it is due at now, and asks
\* its schedule for the instant after.
RECURSIVE runExpiredJobs(_, _)
runExpiredJobs(now, st) ==
    IF QLen(st.q) = 0 THEN st
    ELSE LET j == At(st.q, 0)
             r == ScheduleNext(st.schelule[j], st.q.next[j])
             l == Launch(st, j)
         IN  IF st.q.next[j] > now THEN st
             ELSE runExpiredJobs(now,
                    [l EXCEPT !.schelule = [@ EXCEPT ![j] = r.sched],
                              !.q = IF IsZero(r.time) THEN heapPop(st.q)
                                    ELSE updateNext(st.q, j, r.time)])

\* What a pass of runExpiredJobs starts from.
Pass == [q |-> Queue, schelule |-> schelule, running |-> running, wg |-> wg,
         launched |-> <<>>]

\* run, case now := <-timer.C.  The timer delivers the instant it fired at,
\* which is its due instant or later, up to the present.
TimerCase ==
    /\ loopPc = "select"
    /\ timer <= clock
    /\ \E now \in timer..clock :
         LET st == runExpiredJobs(now, Pass)
         IN  /\ jobs' = st.q.jobs
             /\ index' = st.q.index
             /\ next' = st.q.next
             /\ lockedTime' = st.q.lockedTime
             /\ schelule' = st.schelule
             /\ running' = st.running
             /\ wg' = st.wg
    /\ timer' = 0
    /\ loopPc' = "top"
    /\ UNCHANGED <<clock, ctxDone, count, terminated, closed, callVars, snapVars,
                   handling, panicHandler, call, waitPc>>

\* run, case newJ := <-s.add, together with the sender's return from Schedule.
AddCase(j) ==
    /\ loopPc = "select"
    /\ subPc[j] = "sending"
    /\ LET q == heapPush(Queue, j)
       IN  /\ jobs' = q.jobs
           /\ index' = q.index
           /\ next' = q.next
           /\ lockedTime' = q.lockedTime
    /\ subPc' = [subPc EXCEPT ![j] = "ok"]
    /\ timer' = 0
    /\ loopPc' = "top"
    /\ UNCHANGED <<clock, ctxDone, schelule, count, terminated, closed, appCancel,
                   cancelled, escaped, snapVars, workVars,
                   panicHandler, call, waitPc>>

\* Fault variant: the range check is off by one and spares the root slot.
removeJobSkipsRoot(removeJ, q) ==
    IF q.index[removeJ] <= 0 \/ q.index[removeJ] >= QLen(q) THEN q
    ELSE IF removeJ = At(q, q.index[removeJ]) THEN heapRemove(q, q.index[removeJ])
    ELSE q

\* Fault variant: no check of the index against the slot; an index that names
\* no slot is read as the root.
removeJobUnchecked(removeJ, q) ==
    IF QLen(q) = 0 THEN q
    ELSE IF q.index[removeJ] < 0 \/ q.index[removeJ] >= QLen(q) THEN heapRemove(q, 0)
    ELSE heapRemove(q, q.index[removeJ])

\* Fault variant: the comparison of the handle with its slot is inverted.
removeJobWrongIdentity(removeJ, q) ==
    IF q.index[removeJ] < 0 \/ q.index[removeJ] >= QLen(q) THEN q
    ELSE IF removeJ # At(q, q.index[removeJ]) THEN heapRemove(q, q.index[removeJ])
    ELSE q

\* Fault variant: the slot is cut out of the slice without heap.Remove, so no
\* back-reference is rewritten.
removeJobCut(removeJ, q) ==
    IF q.index[removeJ] < 0 \/ q.index[removeJ] >= QLen(q) THEN q
    ELSE IF removeJ = At(q, q.index[removeJ])
         THEN [q EXCEPT !.jobs = SubSeq(@, 1, q.index[removeJ]) \o
                                 SubSeq(@, q.index[removeJ] + 2, Len(@))]
    ELSE q

\* removeJob: removes the handle when its index names the slot that holds it.
removeJob(removeJ, q) ==
    IF q.index[removeJ] < 0 \/ q.index[removeJ] >= QLen(q) THEN q
    ELSE IF removeJ = At(q, q.index[removeJ]) THEN heapRemove(q, q.index[removeJ])
    ELSE q

\* The goroutines in ManagedJob.Cancel's send on handle j: the application, or
\* a call of a cancelling panic handler.  The step that ends the send.
CancelSender(j, fromApp) ==
    IF fromApp
    THEN appCancel = j /\ appCancel' = 0 /\ UNCHANGED handling
    ELSE /\ panicHandler = "cancel"
         /\ handling[j] > 0
         /\ handling' = [handling EXCEPT ![j] = @ - 1]
         /\ UNCHANGED appCancel

\* run, case removeJ := <-s.remove, together with the sender's return from
\* Cancel.
RemoveCase(j, fromApp) ==
    /\ loopPc = "select"
    /\ CancelSender(j, fromApp)
    /\ LET q == removeJob(j, Queue)
       IN  /\ jobs' = q.jobs
           /\ index' = q.index
           /\ next' = q.next
           /\ lockedTime' = q.lockedTime
    /\ cancelled' = [cancelled EXCEPT ![j] = TRUE]
    /\ timer' = 0
    /\ loopPc' = "top"
    /\ UNCHANGED <<clock, ctxDone, schelule, count, terminated, closed, subPc,
                   escaped, snapVars, running, wg,
                   panicHandler, call, waitPc>>

\* Fault variant: the reply slice is made with length 0, so copy copies nothing.
snapshotNothing(q) == <<>>

\* The copy of the heap that the snapshot case sends back.
snapshotJobs(q) == q.jobs

\* run, case replyChan := <-s.snapshot: the copy goes into the reply buffer.
SnapshotCase ==
    /\ loopPc = "select"
    /\ jobsPc = "sending"
    /\ replyChan' = <<snapshotJobs(Queue)>>
    /\ jobsPc' = "receiving"
    /\ timer' = 0
    /\ loopPc' = "top"
    /\ UNCHANGED <<clock, ctxDone, jobs, index, next, lockedTime, schelule, count, terminated,
                   closed, callVars, jobsResult, addedAtCall,
                   cancelledAtCall, workVars, panicHandler, call, waitPc>>

\* run, case <-s.ctx.Done(), and internalClose's first statement.
CtxDoneCase ==
    /\ loopPc = "select"
    /\ ctxDone
    /\ terminated' = TRUE
    /\ timer' = 0
    /\ loopPc' = "close_add"
    /\ UNCHANGED <<clock, ctxDone, jobs, index, next, lockedTime, schelule, count, closed,
                   callVars, snapVars, workVars, panicHandler, call, waitPc>>

\* Fault variant: internalClose without close(s.remove).
closeOrderSkipsRemove(pc) ==
    CASE pc = "close_add" -> [chan |-> "add", then |-> "close_snapshot"]
      [] pc = "close_remove" -> [chan |-> "remove", then |-> "close_snapshot"]
      [] pc = "close_snapshot" -> [chan |-> "snapshot", then |-> "store_count"]

\* Fault variant: internalClose closes s.add a second time in place of s.remove.
closeOrderAddTwice(pc) ==
    CASE pc = "close_add" -> [chan |-> "add", then |-> "close_remove"]
      [] pc = "close_remove" -> [chan |-> "add", then |-> "close_snapshot"]
      [] pc = "close_snapshot" -> [chan |-> "snapshot", then |-> "store_count"]

\* The channel internalClose closes at each of its positions.
closeOrder(pc) ==
    CASE pc = "close_add" -> [chan |-> "add", then |-> "close_remove"]
      [] pc = "close_remove" -> [chan |-> "remove", then |-> "close_snapshot"]
      [] pc = "close_snapshot" -> [chan |-> "snapshot", then |-> "store_count"]

\* internalClose: close(s.add), close(s.remove), close(s.snapshot), one a step.
CloseChannel ==
    /\ loopPc \in {"close_add", "close_remove", "close_snapshot"}
    /\ closed' = closed \cup {closeOrder(loopPc).chan}
    /\ loopPc' = closeOrder(loopPc).then
    /\ UNCHANGED <<clock, ctxDone, jobs, index, next, lockedTime, schelule, count, terminated,
                   timer, callVars, snapVars, workVars, panicHandler, call, waitPc>>

\* internalClose's last statement and run's deferred s.wg.Done().
LoopExit ==
    /\ loopPc = "store_count"
    /\ count' = 0
    /\ wg' = wg - 1
    /\ loopPc' = "done"
    /\ UNCHANGED <<clock, ctxDone, jobs, index, next, lockedTime, schelule, terminated, closed,
                   timer, callVars, snapVars, running, handling, panicHandler, call, waitPc>>

\* ----------------------------------------------------------- the callers
\* The application is one goroutine: it is inside one call at a time.  (The
\* shutdown calls below come from a goroutine of their own.)
AppBusy ==
    \/ \E j \in JobIds : subPc[j] = "sending"
    \/ appCancel # 0
    \/ jobsPc \in {"sending", "receiving"}

\* Handles are created in the order of their numbers.
FreshJob(j) == subPc[j] = "idle" /\ \A k \in JobIds : k < j => subPc[k] # "idle"

\* Schedule, up to the send on s.add: the first fire time is computed from
\* the present; a zero first fire time returns the 'schedule is empty' error.
ScheduleCall(j, sch) ==
    /\ ~AppBusy
    /\ FreshJob(j)
    /\ LET r == ScheduleNext(sch, clock)
       IN  IF IsZero(r.time)
           THEN /\ subPc' = [subPc EXCEPT ![j] = "empty"]
                /\ UNCHANGED <<schelule, next, lockedTime, index>>
           ELSE /\ subPc' = [subPc EXCEPT ![j] = "sending"]
                /\ schelule' = [schelule EXCEPT ![j] = r.sched]
                /\ next' = [next EXCEPT ![j] = r.time]
                /\ lockedTime' = [lockedTime EXCEPT ![j] = [prev |-> ZeroTime, next |-> r.time]]
                /\ index' = [index EXCEPT ![j] = 0]
    /\ UNCHANGED <<clock, ctxDone, loopPc, jobs, count, terminated, closed, timer,
                   appCancel, cancelled, escaped, snapVars,
                   workVars, panicHandler, call, waitPc>>

\* Fault variant: Schedule without the deferred recover; the panic of the send
\* unwinds into the caller.
ScheduleNoRecover == [pc |-> "panicked", escapes |-> {"Schedule"}]

\* Fault variant: the floor itself is refused.
periodTooShortInclusive(period) == period <= minInterval

\* Period's test of its period argument against the floor of 1 ms.
periodTooShort(period) == period < minInterval

\* Period: a period below the floor returns the error at once, and no
\* schedule is made (the arguments of the refused call are kept in schelule
\* for the record); otherwise Schedule is called with a periodSchedule.
PeriodCall(j, initialDelay, period) ==
    IF periodTooShort(period)
    THEN /\ ~AppBusy
         /\ FreshJob(j)
         /\ subPc' = [subPc EXCEPT ![j] = "period_error"]
         /\ schelule' = [schelule EXCEPT ![j] = periodSchedule(initialDelay, period)]
         /\ UNCHANGED <<clock, ctxDone, loopPc, jobs, index, next, lockedTime, count, terminated,
                        closed, timer, appCancel, cancelled, escaped, snapVars,
                        workVars, panicHandler, call, waitPc>>
    ELSE ScheduleCall(j, periodSchedule(initialDelay, period))

\* Schedule's deferred function when the send on s.add panics: the panic is
\* recovered and becomes the 'scheduler is terminated' error, without a handle.
ScheduleRecover == [pc |-> "terminated", escapes |-> {}]

\* Schedule, the send on the closed s.add.
ScheduleOnClosed(j) ==
    /\ subPc[j] = "sending"
    /\ "add" \in closed
    /\ subPc' = [subPc EXCEPT ![j] = ScheduleRecover.pc]
    /\ escaped' = escaped \cup ScheduleRecover.escapes
    /\ UNCHANGED <<clock, ctxDone, loopVars, appCancel, cancelled, snapVars, workVars, panicHandler, call, waitPc>>

\* ManagedJob.Cancel called by the application on a handle it was given, up
\* to the send on mjob.remove.
CancelCall(j) ==
    /\ ~AppBusy
    /\ subPc[j] = "ok"
    /\ appCancel' = j
    /\ UNCHANGED <<clock, ctxDone, loopVars, subPc, cancelled, escaped, snapVars, workVars, panicHandler, call, waitPc>>

\* Fault variant: Cancel without the deferred recover.
CancelNoRecover == [escapes |-> {"Cancel"}]

\* Cancel's deferred function when the send on mjob.remove panics: the panic
\* is recovered and dropped.
CancelRecover == [escapes |-> {}]

\* ManagedJob.Cancel, the send on the closed mjob.remove.
CancelOnClosed(j, fromApp) ==
    /\ "remove" \in closed
    /\ CancelSender(j, fromApp)
    /\ escaped' = escaped \cup CancelRecover.escapes
    /\ UNCHANGED <<clock, ctxDone, loopVars, subPc, cancelled, snapVars, running, wg, panicHandler, call, waitPc>>

\* Jobs, up to the send of the reply channel on s.snapshot.
JobsCall ==
    /\ ~AppBusy
    /\ jobsPc' = "sending"
    /\ jobsResult' = <<>>
    /\ addedAtCall' = {j \in JobIds : subPc[j] = "ok"}
    /\ cancelledAtCall' = {j \in JobIds : cancelled[j]}
    /\ UNCHANGED <<clock, ctxDone, loopVars, callVars, replyChan, workVars,
                   panicHandler, call, waitPc>>

\* Jobs, jobs = <-replyChan, and the return.
JobsReceive ==
    /\ jobsPc = "receiving"
    /\ jobsResult' = Head(replyChan)
    /\ replyChan' = Tail(replyChan)
    /\ jobsPc' = "returned"
    /\ addedAtCall' = {}
    /\ cancelledAtCall' = {}
    /\ UNCHANGED <<clock, ctxDone, loopVars, callVars, workVars,
                   panicHandler, call, waitPc>>

\* Fault variant: Jobs without the deferred recover.
JobsNoRecover == [jobs |-> <<>>, escapes |-> {"Jobs"}]

\* Jobs' deferred function when the send on s.snapshot panics: the panic is
\* recovered and the result is nil.
JobsRecover == [jobs |-> <<>>, escapes |-> {}]

\* Jobs, the send on the closed s.snapshot.
JobsOnClosed ==
    /\ jobsPc = "sending"
    /\ "snapshot" \in closed
    /\ jobsResult' = JobsRecover.jobs
    /\ escaped' = escaped \cup JobsRecover.escapes
    /\ jobsPc' = "returned"
    /\ addedAtCall' = {}
    /\ cancelledAtCall' = {}
    /\ UNCHANGED <<clock, ctxDone, loopVars, subPc, appCancel, cancelled,
                   replyChan, workVars,
                   panicHandler, call, waitPc>>

\* Shutdown: s.cancel().
Shutdown ==
    /\ ctxDone' = TRUE
    /\ UNCHANGED <<clock, loopVars, callVars, snapVars, workVars, panicHandler, call, waitPc>>

\* The context given by WithContext is cancelled by its owner: s.ctx, derived
\* from it, is done as well.
ParentCancel ==
    /\ ~ctxDone
    /\ ctxDone' = TRUE
    /\ UNCHANGED <<clock, loopVars, callVars, snapVars, workVars, panicHandler, call, waitPc>>

\* ShutdownAndWait: s.cancel(), then the caller is in s.wg.Wait().
ShutdownAndWaitCall ==
    /\ waitPc = "idle"
    /\ ctxDone' = TRUE
    /\ waitPc' = "waiting"
    /\ UNCHANGED <<clock, loopVars, callVars, snapVars, workVars, panicHandler, call>>

\* Fault variant: a Wait that does not count the dispatch goroutine.
WaitDoneEarly(n) == n <= 1

\* s.wg.Wait() returns when the counter is zero.
WaitDone(n) == n = 0

\* ShutdownAndWait returns.
ShutdownAndWaitReturn ==
    /\ waitPc = "waiting"
    /\ WaitDone(wg)
    /\ waitPc' = "returned"
    /\ UNCHANGED <<clock, ctxDone, loopVars, callVars, snapVars, workVars, panicHandler, call>>

\* ----------------------------------------------------------- the workers
\* safeRun, the job body returns: the deferred function calls s.wg.Done() and
\* finds nothing to recover.
WorkerReturn(j) ==
    /\ running[j] > 0
    /\ running' = [running EXCEPT ![j] = @ - 1]
    /\ wg' = wg - 1
    /\ UNCHANGED <<clock, ctxDone, loopVars, callVars, snapVars, handling,
                   panicHandler, call, waitPc>>

\* Fault variant: the handler is given another job's handle.
handlerJobOther(j) == (j % MaxJobs) + 1

\* The handle safeRun passes to the panic handler.
handlerJob(j) == j

\* safeRun, the job body panics: the deferred function calls s.wg.Done(),
\* recovers the panic and calls s.panicHandler with the handle.
WorkerPanic(j) ==
    /\ running[j] > 0
    /\ running' = [running EXCEPT ![j] = @ - 1]
    /\ wg' = wg - 1
    /\ handling' = [handling EXCEPT ![handlerJob(j)] = @ + 1]
    /\ UNCHANGED <<clock, ctxDone, loopVars, callVars, snapVars, panicHandler, call, waitPc>>

\* The default panic handler has written its line and returns.  (A cancelling
\* handler returns when its Cancel does: RemoveCase, CancelOnClosed.)
HandlerReturn(j) ==
    /\ panicHandler = "log"
    /\ handling[j] > 0
    /\ handling' = [handling EXCEPT ![j] = @ - 1]
    /\ UNCHANGED <<clock, ctxDone, loopVars, callVars, snapVars, running, wg,
                   panicHandler, call, waitPc>>

\* A panic handler that itself panics: safeRun's deferred function has no
\* recover around the call of s.panicHandler, so the panic leaves safeRun and
\* ends the goroutine unrecovered, which ends the process.
HandlerPanic(j) ==
    /\ panicHandler = "panic"
    /\ handling[j] > 0
    /\ handling' = [handling EXCEPT ![j] = @ - 1]
    /\ escaped' = escaped \cup {"safeRun"}
    /\ UNCHANGED <<clock, ctxDone, loopVars, subPc, appCancel, cancelled, snapVars,
                   running, wg, panicHandler, call, waitPc>>

\* The process has ended on an unrecovered panic: no goroutine runs any more.
Crashed == "safeRun" \in escaped

\* ---------------------------------------------------- the specification
\* Every step but the clock's: the steps of the dispatch loop, of the callers
\* and of the workers.
Work ==
    \/ LoopTop
    \/ TimerCase
    \/ \E j \in JobIds : AddCase(j)
    \/ \E j \in JobIds : \E fromApp \in BOOLEAN : RemoveCase(j, fromApp)
    \/ SnapshotCase
    \/ CtxDoneCase
    \/ CloseChannel
    \/ LoopExit
    \/ \E j \in JobIds : \E sch \in AfterSchedules \cup EmptySchedules : ScheduleCall(j, sch)
    \/ \E j \in JobIds : \E d \in Delays : \E p \in Periods : PeriodCall(j, d, p)
    \/ \E j \in JobIds : ScheduleOnClosed(j)
    \/ \E j \in JobIds : CancelCall(j)
    \/ \E j \in JobIds : \E fromApp \in BOOLEAN : CancelOnClosed(j, fromApp)
    \/ JobsCall
    \/ JobsReceive
    \/ JobsOnClosed
    \/ Shutdown
    \/ ParentCancel
    \/ ShutdownAndWaitCall
    \/ ShutdownAndWaitReturn
    \/ \E j \in JobIds : WorkerReturn(j)
    \/ \E j \in JobIds : WorkerPanic(j)
    \/ \E j \in JobIds : HandlerReturn(j)

Next == Tick \/ Work

Spec == Init /\ [][Next]_vars

\* The scheduler with any panic handler the application may install, one that
\* panics included.
AnyHandlers == PanicHandlers \cup {"panic"}
CrashNext ==
    \/ ~Crashed /\ Next
    \/ ~Crashed /\ \E j \in JobIds : HandlerPanic(j)
CrashSpec == Start(AnyHandlers) /\ [][CrashNext]_vars

\* The scheduler of an application that also calls Period with a negative
\* initial delay.
NegativeDelays == {-1}
DelayNext ==
    \/ Next
    \/ \E j \in JobIds : \E d \in NegativeDelays : PeriodCall(j, d, minInterval)
DelaySpec == Start({"log"}) /\ [][DelayNext]_vars

\* The scheduling the Go runtime gives: a goroutine that can take a step takes
\* it (weak fairness of the loop's own steps and of each caller's return from
\* a send on a closed channel or from the receive of a buffered reply), and a
\* select picks among its ready cases at random, so a case that is ready every
\* time the loop comes to the select is taken in the end (strong fairness of
\* the ctx.Done and snapshot cases).  Nothing is assumed of the job bodies,
\* the panic handlers, the clock or the application.
Fairness ==
    /\ WF_vars(LoopTop)
    /\ SF_vars(CtxDoneCase)
    /\ SF_vars(SnapshotCase)
    /\ WF_vars(CloseChannel)
    /\ WF_vars(LoopExit)
    /\ WF_vars(JobsReceive)
    /\ WF_vars(JobsOnClosed)
    /\ \A j \in JobIds : WF_vars(ScheduleOnClosed(j))
    /\ \A j \in JobIds : \A fromApp \in BOOLEAN : WF_vars(CancelOnClosed(j, fromApp))

\* The scheduler within one instant of the clock, under that scheduling: the
\* jobs due at the instant of construction fire, the clock does not advance.
LiveSpec == Init /\ [][Work]_vars /\ Fairness

\* The timer case of the select is ready: the timer armed in this iteration
\* has fired.  TimerCase can be taken exactly then, and taking it changes
\* loopPc.
TimerReady == loopPc = "select" /\ timer <= clock

\* The scheduler with the clock running, under the part of that scheduling
\* the firing of a due job rests on: the loop goroutine comes from the top of
\* its loop to the select, and the timer case is taken in the end when its
\* timer has fired every time the loop comes to the select (the select picks
\* among its ready cases at random).  The second condition is strong fairness
\* of TimerCase, written out with TimerReady for its enabling condition.
FireSpec ==
    /\ Init /\ [][Next]_vars
    /\ WF_vars(LoopTop)
    /\ (<>[]~TimerReady \/ []<><<TimerCase>>_vars)

\* --------------------------------------------------- composite schedules
\* A schedule with a fixed list of instants in ascending order (whSchedule):
\* Next returns the first of them after t, or the zero time.
Instants == 1..MaxInstant
whNext(times, t) ==
    LET after == {lt \in times : lt > t}
    IN  IF after = {} THEN ZeroTime
        ELSE CHOOSE lt \in after : \A other \in after : lt <= other

\* The outcome of a Next call: the instant it returns, or no return at all.
Returns(t) == [returns |-> TRUE, time |-> t]
NeverReturns == [returns |-> FALSE, time |-> ZeroTime]

\* union.Next
unionNext(l, r, t) ==
    LET t1 == whNext(l, t)
        t2 == whNext(r, t)
    IN  IF t1 < t2 /\ ~IsZero(t1) THEN Returns(t1) ELSE Returns(t2)

\* intersect.Next: the loop, entered with the two candidates.
RECURSIVE intersectLoop(_, _, _, _)
intersectLoop(l, r, t1, t2) ==
    IF IsZero(t1) \/ IsZero(t2) THEN Returns(t1)
    ELSE IF t1 = t2 THEN Returns(t1)
    ELSE IF t1 < t2 THEN intersectLoop(l, r, whNext(l, t1), t2)
    ELSE intersectLoop(l, r, t1, whNext(r, t2))

intersectNext(l, r, t) == intersectLoop(l, r, whNext(l, t), whNext(r, t))

\* minus.Next: the outer loop and the inner loop 'for t1.After(t2)'.  The
\* inner loop does not test t2 for the zero time, and the Next of the zero
\* time is the first instant again: when it comes back to a t2 it has had
\* with the same t1, it repeats for ever and the call never returns.
RECURSIVE minusLoop(_, _, _, _)
RECURSIVE minusInner(_, _, _, _, _)
minusLoop(l, r, t1, t2) ==
    IF IsZero(t2) THEN Returns(t1)
    ELSE IF t1 < t2 THEN Returns(t1)
    ELSE IF t1 = t2 THEN minusLoop(l, r, whNext(l, t1), whNext(r, t2))
    ELSE minusInner(l, r, t1, t2, {})

minusInner(l, r, t1, t2, seen) ==
    IF ~(t1 > t2) THEN minusLoop(l, r, t1, t2)
    ELSE IF t2 \in seen THEN NeverReturns
    ELSE minusInner(l, r, t1, whNext(r, t2), seen \cup {t2})

minusNext(l, r, t) == minusLoop(l, r, whNext(l, t), whNext(r, t))

\* Schedule.Next of Union(l, r), Minus(l, r) or Intersect(l, r).
compositeNext(op, l, r, t) ==
    CASE op = "union" -> unionNext(l, r, t)
      [] op = "minus" -> minusNext(l, r, t)
      [] op = "intersect" -> intersectNext(l, r, t)

Composites == {"union", "minus", "intersect"}

otherVars == <<clock, ctxDone, loopVars, callVars, snapVars, workVars, panicHandler,
               waitPc>>

\* A composite of two schedules is made and its Next called with instant t.
CompositeCall(op, l, r, t) ==
    /\ call = NoCall
    /\ call' = [op |-> op, l |-> l, r |-> r, t |-> t, pc |-> "called",
                result |-> NeverReturns]
    /\ UNCHANGED otherVars

\* The Next call returns, when it does.
CompositeReturn ==
    /\ call # NoCall
    /\ call.pc = "called"
    /\ compositeNext(call.op, call.l, call.r, call.t).returns
    /\ call' = [call EXCEPT !.pc = "returned",
                            !.result = compositeNext(call.op, call.l, call.r, call.t)]
    /\ UNCHANGED otherVars

\* The schedule is iterated: Next is called with the instant it returned.
CompositeIterate ==
    /\ call # NoCall
    /\ call.pc = "returned"
    /\ ~IsZero(call.result.time)
    /\ call' = [call EXCEPT !.t = call.result.time, !.pc = "called",
                            !.result = NeverReturns]
    /\ UNCHANGED otherVars

CompositeNext ==
    \/ \E op \in Composites : \E l \in SUBSET Instants : \E r \in SUBSET Instants :
          \E t \in {ZeroTime} \cup Instants : CompositeCall(op, l, r, t)
    \/ CompositeReturn
    \/ CompositeIterate

\* Composite schedules evaluated on their own, as IndSchedule iterates them.
\* The caller's code after the call is reached when the call returns.
CompositeSpec == Init /\ [][CompositeNext]_vars /\ WF_vars(CompositeReturn)

\* --------------------------------------------------------- cron expressions
\* A field of an Expression is a 64-bit word in which value v is bit
\* 1 << (63 - v); it is written here as the set of the values whose bits are
\* set, so that a shift moves every value and drops what leaves the word.
notFountIdx == 64
shl(v, n) == {b - n : b \in {x \in v : x - n >= 0}}
shr(v, n) == {b + n : b \in {x \in v : x + n <= 63}}
secondsMask == 0..59
minutesMask == 0..59
hoursMask == 0..23
daysMask == 1..31
monthsMask == 1..12
weeksMask == 1..35

\* 64 - bits.Len64(v): the least value of a word, or 64 for the empty word.
minValue(v) ==
    IF v = {} THEN notFountIdx
    ELSE CHOOSE x \in v : \A y \in v : x <= y

\* 63 - bits.TrailingZeros64(v): the greatest value of a non-empty word.
maxValue(v) == CHOOSE x \in v : \A y \in v : x >= y

\* Fault variant: the search starts at the first value of the field.
matchFieldFromStart(v, mask, i) == minValue(v \cap mask)

\* The least value of v at or after i within the mask, or notFountIdx.
matchField(v, mask, i) == minValue(v \cap shr(shl(mask, i), i))

\* An instant in a location without clock changes, by its fields (time.Date);
\* the zero time.Time is the first second of year 1.
Date(year, month, day, hour, min, sec) ==
    [Year |-> year, Month |-> month, Day |-> day, Hour |-> hour, Minute |-> min,
     Second |-> sec, Nanosecond |-> 0]
zeroTime == Date(1, 1, 1, 0, 0, 0)

\* The calendar behind time.Date, AddDate and Weekday: Sunday is 0, and
\* 1 January 1970 was a Thursday.
isLeap(year) == year % 4 = 0 /\ (year % 100 # 0 \/ year % 400 = 0)
daysIn(year, month) ==
    IF month = 2 THEN (IF isLeap(year) THEN 29 ELSE 28)
    ELSE IF month \in {4, 6, 9, 11} THEN 30 ELSE 31
leapsBefore(year) == (year - 1) \div 4 - (year - 1) \div 100 + (year - 1) \div 400
RECURSIVE daysBeforeMonth(_, _)
daysBeforeMonth(year, month) ==
    IF month = 1 THEN 0
    ELSE daysBeforeMonth(year, month - 1) + daysIn(year, month - 1)
daysSinceEpoch(year, month, day) ==
    (year - 1970) * 365 + (leapsBefore(year) - leapsBefore(1970))
        + daysBeforeMonth(year, month) + (day - 1)
Weekday(year, month, day) == (4 + daysSinceEpoch(year, month, day)) % 7
Saturday == 6
Sunday == 0

lastWorkdayOfMonth(lastDay, lastWeekday) ==
    IF lastWeekday = Saturday THEN lastDay - 1
    ELSE IF lastWeekday = Sunday THEN lastDay - 2
    ELSE lastDay

firstWorkdayOfMonth(firstWeekday) ==
    IF firstWeekday = Saturday THEN 3
    ELSE IF firstWeekday = Sunday THEN 2
    ELSE 1

\* Fault variant: a Saturday moves on to the Monday.
midWorkdayOfMonthForward(midDay, weekday) ==
    IF weekday = Saturday THEN midDay + 2
    ELSE IF weekday = Sunday THEN midDay + 1
    ELSE midDay

midWorkdayOfMonth(midDay, weekday) ==
    IF weekday = Saturday THEN midDay - 1
    ELSE IF weekday = Sunday THEN midDay + 1
    ELSE midDay

\* The days of ({Number}W) entries: the first day, the days between, the last.
workdays(workdaysOfMonth, lastDay, firstWeekday, lastWeekday) ==
    IF workdaysOfMonth = {} THEN {}
    ELSE LET start == minValue(workdaysOfMonth)
             end == maxValue(workdaysOfMonth)
             from == IF start = 1 THEN start + 1 ELSE start
         IN  (IF start = 1 THEN {firstWorkdayOfMonth(firstWeekday)} ELSE {})
             \cup {midWorkdayOfMonth(v, (firstWeekday + v - 1) % 7) :
                      v \in {x \in workdaysOfMonth : from <= x /\ x <= end /\ x < lastDay}}
             \cup (IF end = lastDay THEN {lastWorkdayOfMonth(lastDay, lastWeekday)} ELSE {})

\* The days of one month on which the expression fires.
calculateActualDaysOfMonth(expr, year, month) ==
    LET lastDay == daysIn(year, month)
        thisMonthsMask == shl(shr(daysMask, 63 - lastDay), 63 - lastDay)
        lastWeekday == Weekday(year, month, lastDay)
        firstWeekday == Weekday(year, month, 1)
        ofMonth ==
            IF expr.daysOfMonth # daysMask
            THEN expr.daysOfMonth
                 \cup (IF expr.lastDayOfMonth THEN {lastDay} ELSE {})
                 \cup (IF expr.lastWorkdayOfMonth
                       THEN {lastWorkdayOfMonth(lastDay, lastWeekday)} ELSE {})
                 \cup workdays(expr.workdaysOfMonth \cap thisMonthsMask, lastDay,
                               firstWeekday, lastWeekday)
            ELSE {}
        lastWeekdays == shl(expr.lastWeekdaysOfWeek, firstWeekday)
        ofWeek ==
            IF expr.daysOfWeek # weeksMask
            THEN shl(expr.daysOfWeek, firstWeekday)
                 \cup shl(expr.ithWeekdaysOfWeek, firstWeekday)
                 \cup shr(shl(lastWeekdays, lastDay - 7), lastDay - 7)
            ELSE {}
    IN  IF expr.daysOfMonth = daysMask /\ expr.daysOfWeek = weeksMask
        THEN thisMonthsMask
        ELSE (ofMonth \cup ofWeek) \cap thisMonthsMask

\* Fault variant: the search goes on past the last year.
matchYearUnbounded(expr, year) ==
    LET from == IF year < 1970 THEN 1970 ELSE year
        found == {y \in expr.years : y >= from}
    IN  IF found = {} THEN 0
        ELSE CHOOSE y \in found : \A other \in found : y <= other

\* The first year of the expression at or after the given one, or 0.
matchYear(expr, year) ==
    IF year > 2099 THEN 0
    ELSE LET from == IF year < 1970 THEN 1970 ELSE year
             found == {y \in expr.years : y >= from}
         IN  IF found = {} THEN 0
             ELSE CHOOSE y \in found : \A other \in found : y <= other

RECURSIVE nextYear(_, _)
RECURSIVE nextMonth(_, _)
nextYear(expr, t) ==
    LET year == matchYear(expr, t.Year + 1)
        actualDaysOfMonth == calculateActualDaysOfMonth(expr, year, minValue(expr.months))
    IN  IF year = 0 THEN zeroTime
        ELSE IF actualDaysOfMonth = {}
        THEN nextMonth(expr, Date(year, minValue(expr.months), 1, minValue(expr.hours),
                                  minValue(expr.minutes), minValue(expr.seconds)))
        ELSE Date(year, minValue(expr.months), minValue(actualDaysOfMonth),
                  minValue(expr.hours), minValue(expr.minutes), minValue(expr.seconds))

nextMonth(expr, t) ==
    LET i == matchField(expr.months, monthsMask, t.Month + 1)
        actualDaysOfMonth == calculateActualDaysOfMonth(expr, t.Year, i)
    IN  IF i = notFountIdx THEN nextYear(expr, t)
        ELSE IF actualDaysOfMonth = {}
        THEN nextMonth(expr, Date(t.Year, i, 1, minValue(expr.hours),
                                  minValue(expr.minutes), minValue(expr.seconds)))
        ELSE Date(t.Year, i, minValue(actualDaysOfMonth), minValue(expr.hours),
                  minValue(expr.minutes), minValue(expr.seconds))

nextDayOfMonth(expr, t, actualDaysOfMonth) ==
    LET i == matchField(actualDaysOfMonth, daysMask, t.Day + 1)
    IN  IF i = notFountIdx THEN nextMonth(expr, t)
        ELSE Date(t.Year, t.Month, i, minValue(expr.hours), minValue(expr.minutes),
                  minValue(expr.seconds))

nextHour(expr, t, actualDaysOfMonth) ==
    LET i == matchField(expr.hours, hoursMask, t.Hour + 1)
    IN  IF i = notFountIdx THEN nextDayOfMonth(expr, t, actualDaysOfMonth)
        ELSE Date(t.Year, t.Month, t.Day, i, minValue(expr.minutes), minValue(expr.seconds))

nextMinute(expr, t, actualDaysOfMonth) ==
    LET i == matchField(expr.minutes, minutesMask, t.Minute + 1)
    IN  IF i = notFountIdx THEN nextHour(expr, t, actualDaysOfMonth)
        ELSE Date(t.Year, t.Month, t.Day, t.Hour, i, minValue(expr.seconds))

\* Fault variant: the second the search was given is returned as it is.
nextSecondStays(expr, t, actualDaysOfMonth) ==
    Date(t.Year, t.Month, t.Day, t.Hour, t.Minute, t.Second)

\* The next second of the minute, or the next minute.
nextSecond(expr, t, actualDaysOfMonth) ==
    LET i == matchField(expr.seconds, secondsMask, t.Second + 1)
    IN  IF i = notFountIdx THEN nextMinute(expr, t, actualDaysOfMonth)
        ELSE Date(t.Year, t.Month, t.Day, t.Hour, t.Minute, i)

\* Expression.Next: the fields of fromTime are matched from the year down,
\* and the first one that does not match decides where the search goes on.
ExpressionNext(expr, fromTime) ==
    LET year == matchYear(expr, fromTime.Year)
        month == matchField(expr.months, monthsMask, fromTime.Month)
        actualDaysOfMonth == calculateActualDaysOfMonth(expr, fromTime.Year, fromTime.Month)
        day == matchField(actualDaysOfMonth, daysMask, fromTime.Day)
        hour == matchField(expr.hours, hoursMask, fromTime.Hour)
        minute == matchField(expr.minutes, minutesMask, fromTime.Minute)
        second == matchField(expr.seconds, secondsMask, fromTime.Second)
    IN  IF fromTime = zeroTime THEN fromTime
        ELSE IF year = 0 THEN zeroTime
        ELSE IF fromTime.Year # year THEN nextYear(expr, fromTime)
        ELSE IF month = notFountIdx THEN nextYear(expr, fromTime)
        ELSE IF fromTime.Month # month THEN nextMonth(expr, fromTime)
        ELSE IF actualDaysOfMonth = {} THEN nextMonth(expr, fromTime)
        ELSE IF day = notFountIdx THEN nextMonth(expr, fromTime)
        ELSE IF fromTime.Day # day THEN nextDayOfMonth(expr, fromTime, actualDaysOfMonth)
        ELSE IF hour = notFountIdx THEN nextDayOfMonth(expr, fromTime, actualDaysOfMonth)
        ELSE IF fromTime.Hour # hour THEN nextHour(expr, fromTime, actualDaysOfMonth)
        ELSE IF minute = notFountIdx THEN nextHour(expr, fromTime, actualDaysOfMonth)
        ELSE IF fromTime.Minute # minute THEN nextMinute(expr, fromTime, actualDaysOfMonth)
        ELSE IF second = notFountIdx THEN nextMinute(expr, fromTime, actualDaysOfMonth)
        ELSE nextSecond(expr, fromTime, actualDaysOfMonth)

\* What Parse does to the day-of-week field once its entries are read: value
\* 7 is Sunday too, the week is repeated over five weeks, and the whole moves
\* by one, so that value 1 is the Sunday of the first week.
expandWeeks(daysOfWeek) ==
    LET withSunday == daysOfWeek \cup (IF 7 \in daysOfWeek THEN {0} ELSE {})
        week == withSunday \cap 0..6
    IN  shr(withSunday \cup UNION {shr(week, i) : i \in {0, 7, 14, 21, 28}}, 1)

\* The expressions that are evaluated: each field is one of a few entries.
\* The day-of-month entries are '*', '29', '31' and 'L', the day-of-week
\* entries '*', 'MON' and '6,7'.
SecondFields == {{0}, {0, 59}}
MinuteFields == {{0}, {30, 59}}
HourFields == {{0}, {12, 23}}
DayOfMonthFields ==
    {[days |-> daysMask, last |-> FALSE], [days |-> {29}, last |-> FALSE],
     [days |-> {31}, last |-> FALSE], [days |-> {}, last |-> TRUE]}
MonthFields == {{2}, {2, 3}}
DayOfWeekFields == {0..7, {1}, {6, 7}}
allYears == 1970..2161
YearFields == {{2012, 2013}, {2013, 2099}, allYears}
Expressions ==
    {[seconds |-> s, minutes |-> mi, hours |-> h, daysOfMonth |-> dom.days,
      workdaysOfMonth |-> {}, lastDayOfMonth |-> dom.last,
      lastWorkdayOfMonth |-> FALSE, months |-> mo, daysOfWeek |-> expandWeeks(dow),
      ithWeekdaysOfWeek |-> {}, lastWeekdaysOfWeek |-> {}, years |-> y] :
        s \in SecondFields, mi \in MinuteFields, h \in HourFields,
        dom \in DayOfMonthFields, mo \in MonthFields, dow \in DayOfWeekFields,
        y \in YearFields}

\* The instants Next is called with: days at the ends of February and of
\* December, times at the ends of the day, with and without a part of a
\* second; and the zero time.
FromYears == {2011, 2012, 2013, 2099, 2100}
FromMonths == {2, 12}
FromClocks == {<<0, 0, 0, 0>>, <<0, 59, 59, 1>>, <<12, 30, 0, 0>>, <<23, 59, 59, 1>>}
FromTimes ==
    {[Date(y, m, d, c[1], c[2], c[3]) EXCEPT !.Nanosecond = c[4]] :
        y \in FromYears, m \in FromMonths, d \in {1, 28, 29, 31}, c \in FromClocks}
    \cup {zeroTime}

\* Next of an expression is called with an instant that the calendar has.
CronCall ==
    /\ call = NoCall
    /\ \E expr \in Expressions : \E t \in FromTimes :
          /\ t.Day <= daysIn(t.Year, t.Month)
          /\ call' = [op |-> "cron", expr |-> expr, t |-> t, pc |-> "called",
                      result |-> zeroTime]
    /\ UNCHANGED otherVars

\* The call returns.
CronReturn ==
    /\ call # NoCall
    /\ call.op = "cron"
    /\ call.pc = "called"
    /\ call' = [call EXCEPT !.pc = "returned",
                            !.result = ExpressionNext(call.expr, call.t)]
    /\ UNCHANGED otherVars

\* The expression is iterated: Next is called with the instant it returned.
\* The iteration is followed through the years that calls are made in.
CronIterate ==
    /\ call # NoCall
    /\ call.op = "cron"
    /\ call.pc = "returned"
    /\ call.result # zeroTime
    /\ call.result.Year \in FromYears
    /\ call' = [call EXCEPT !.t = call.result, !.pc = "called", !.result = zeroTime]
    /\ UNCHANGED otherVars

CronNext ==
    \/ CronCall
    \/ CronReturn
    \/ CronIterate

\* Cron expressions evaluated on their own.
CronSpec == Start({"log"}) /\ [][CronNext]_vars

\* ------------------------------------------------------------- cron parser
\* An entry of a field: '*', a value, a span a-b, each with or without a
\* step (/s), or one of '?', 'L', 'LW', 'nW' (value a), 'dL' (weekday a) and
\* 'd#n' (weekday a, ordinal b).  Names of months and weekdays stand as the
\* numbers they are read as.
entry(form, a, b, slash, step) ==
    [form |-> form, a |-> a, b |-> b, slash |-> slash, step |-> step]

\* What parsing has come to: the expression so far, an error, or a panic.
Parsed(expr) == [status |-> "ok", expr |-> expr]
ParseError == [status |-> "error", expr |-> <<>>]
ParsePanic == [status |-> "panic", expr |-> <<>>]

fieldParsers ==
    <<[name |-> "second", field |-> "seconds", min |-> 0, max |-> 59,
       atoi |-> "atoi", specEntryParser |-> "nil"],
      [name |-> "minute", field |-> "minutes", min |-> 0, max |-> 59,
       atoi |-> "atoi", specEntryParser |-> "nil"],
      [name |-> "hour", field |-> "hours", min |-> 0, max |-> 23,
       atoi |-> "atoi", specEntryParser |-> "nil"],
      [name |-> "day of month", field |-> "daysOfMonth", min |-> 1, max |-> 31,
       atoi |-> "atoi", specEntryParser |-> "parseSpecDomEntry"],
      [name |-> "month", field |-> "months", min |-> 1, max |-> 12,
       atoi |-> "atomi", specEntryParser |-> "nil"],
      [name |-> "day of week", field |-> "daysOfWeek", min |-> 0, max |-> 7,
       atoi |-> "atowi", specEntryParser |-> "parseSpecDowEntry"],
      [name |-> "year", field |-> "years", min |-> 1970, max |-> 2099,
       atoi |-> "atoi", specEntryParser |-> "nil"]>>

\* The field's atoi reads the number: atomi knows 1..12, atowi 0..7.
atoiOk(fp, n) ==
    CASE fp.atoi = "atomi" -> n \in 1..12
      [] fp.atoi = "atowi" -> n \in 0..7
      [] OTHER -> TRUE

isValid(fp, n) == n >= fp.min /\ n <= fp.max

\* The bits of begin, begin + step, ... up to end are set in the field.
populateTo(fp, expr, begin, end, step) ==
    Parsed([expr EXCEPT ![fp.field] =
                @ \cup {i \in begin..end : (i - begin) % step = 0}])

\* The part of an entry before its step.  A part that is no number and has
\* no '-' is sliced at index -1, which panics.
parseStep(fp, expr, e, step) ==
    IF e.form = "*" THEN populateTo(fp, expr, fp.min, fp.max, step)
    ELSE IF e.form = "n" /\ atoiOk(fp, e.a)
    THEN IF isValid(fp, e.a) THEN populateTo(fp, expr, e.a, fp.max, step)
         ELSE ParseError
    ELSE IF e.form = "a-b"
    THEN IF atoiOk(fp, e.a) /\ isValid(fp, e.a) /\ atoiOk(fp, e.b) /\ isValid(fp, e.b)
         THEN populateTo(fp, expr, e.a, e.b, step)
         ELSE ParseError
    ELSE ParsePanic

parseSpecDomEntry(expr, e) ==
    CASE e.form = "?" -> Parsed([expr EXCEPT !.daysOfMonth = @ \cup daysMask])
      [] e.form = "LW" -> Parsed([expr EXCEPT !.lastWorkdayOfMonth = TRUE])
      [] e.form = "L" -> Parsed([expr EXCEPT !.lastDayOfMonth = TRUE])
      [] e.form = "nW" ->
           IF e.a < 1 \/ e.a > 31 THEN ParseError
           ELSE Parsed([expr EXCEPT !.workdaysOfMonth = @ \cup {e.a}])
      [] OTHER -> ParseError

parseSpecDowEntry(expr, e) ==
    CASE e.form = "?" -> Parsed([expr EXCEPT !.daysOfWeek = @ \cup shl(weeksMask, 1)])
      [] e.form = "dL" ->
           IF e.a \notin 0..7 THEN ParseError
           ELSE Parsed([expr EXCEPT !.lastWeekdaysOfWeek = @ \cup {e.a}])
      [] e.form = "d#n" ->
           IF e.a \notin 0..7 \/ e.b \notin 0..7 \/ e.b < 1 \/ e.b > 5 THEN ParseError
           ELSE LET weekday == IF e.a = 7 THEN 0 ELSE e.a
                    n == (e.b - 1) * 7 + weekday
                IN  Parsed([expr EXCEPT !.ithWeekdaysOfWeek = @ \cup {n + 1}])
      [] OTHER -> ParseError

\* Fault variant: a step of one more than max - min passes.
stepOutOfRangeByOne(fp, step) == step < 1 \/ step > (fp.max - fp.min) + 1

\* The step of an entry is refused.
stepOutOfRange(fp, step) == step < 1 \/ step > (fp.max - fp.min)

\* fieldParser.parseEntry
parseEntry(fp, expr, e) ==
    IF e.form = "*" /\ ~e.slash THEN populateTo(fp, expr, fp.min, fp.max, 1)
    ELSE IF e.form = "n" /\ ~e.slash /\ atoiOk(fp, e.a)
    THEN IF isValid(fp, e.a) THEN populateTo(fp, expr, e.a, e.a, 1) ELSE ParseError
    ELSE IF e.slash
    THEN IF ~atoiOk(fp, e.step) \/ stepOutOfRange(fp, e.step)
         THEN ParseError
         ELSE parseStep(fp, expr, e, e.step)
    ELSE IF e.form = "a-b" THEN parseStep(fp, expr, e, 1)
    ELSE IF fp.specEntryParser = "parseSpecDomEntry" THEN parseSpecDomEntry(expr, e)
    ELSE IF fp.specEntryParser = "parseSpecDowEntry" THEN parseSpecDowEntry(expr, e)
    ELSE ParseError

\* fieldParser.parse: the entries of a field, one after the other, up to the
\* first that fails.
RECURSIVE parse(_, _, _)
parse(fp, expr, field) ==
    IF field = <<>> THEN Parsed(expr)
    ELSE LET first == parseEntry(fp, expr, Head(field))
         IN  IF first.status # "ok" THEN first
             ELSE parse(fp, first.expr, Tail(field))

\* The repetition of the 'dL' weekdays over five weeks: as expandWeeks, but
\* the whole word is repeated, value 7 included.
expandLastWeekdays(lastWeekdaysOfWeek) ==
    LET withSunday == lastWeekdaysOfWeek
                         \cup (IF 7 \in lastWeekdaysOfWeek THEN {0} ELSE {})
    IN  shr(UNION {shr(withSunday, i) : i \in {0, 7, 14, 21, 28}}, 1)

\* The fields of a spec from the given one on, each by its parser.
RECURSIVE parseFields(_, _, _, _)
parseFields(expr, fields, field, parser) ==
    IF field > Len(fields) \/ parser > Len(fieldParsers) THEN Parsed(expr)
    ELSE LET this == parse(fieldParsers[parser], expr, fields[field])
         IN  IF this.status # "ok" THEN this
             ELSE parseFields(this.expr, fields, field + 1, parser + 1)

\* Parse of a spec of fields: five fields have no seconds, fewer than seven
\* fire in all years.
Parse(fields) ==
    LET zero == [seconds |-> {}, minutes |-> {}, hours |-> {}, daysOfMonth |-> {},
                 workdaysOfMonth |-> {}, lastDayOfMonth |-> FALSE,
                 lastWorkdayOfMonth |-> FALSE, months |-> {}, daysOfWeek |-> {},
                 ithWeekdaysOfWeek |-> {}, lastWeekdaysOfWeek |-> {}, years |-> {}]
        fieldCount == Len(fields)
        all == IF fieldCount = 5
               THEN parseFields([zero EXCEPT !.seconds = {0}], fields, 1, 2)
               ELSE parseFields(zero, fields, 1, 1)
    IN  IF fieldCount < 5 THEN ParseError
        ELSE IF all.status # "ok" THEN all
        ELSE Parsed([all.expr EXCEPT
                        !.years = IF fieldCount < 7 THEN allYears ELSE @,
                        !.daysOfWeek = expandWeeks(@),
                        !.lastWeekdaysOfWeek = expandLastWeekdays(@)])

\* The specs that are parsed.  A field is a list of entries; star is '*'.
star == <<entry("*", 0, 0, FALSE, 0)>>

\* Six fields, of which the day of month and the day of week are given: the
\* day of month is '*', '?', 1, 15, 31, 'L', 'LW' or 'nW', the day of week
\* '*', '?', a weekday 0..7, '6,7', '1-5', 'dL' or 'd#n'.  One of the two is
\* '*' or '?', or both are plain values.
DaySpecs ==
    LET spec(dom, dow) == <<star, star, star, dom, star, dow>>
        stars == {star, <<entry("?", 0, 0, FALSE, 0)>>}
        valuesOfMonth == {<<entry("n", n, 0, FALSE, 0)>> : n \in {1, 15, 31}}
        allOfMonth ==
            stars \cup valuesOfMonth
                \cup {<<entry("L", 0, 0, FALSE, 0)>>, <<entry("LW", 0, 0, FALSE, 0)>>}
                \cup {<<entry("nW", n, 0, FALSE, 0)>> : n \in 1..31}
        valuesOfWeek ==
            {<<entry("n", d, 0, FALSE, 0)>> : d \in 0..7}
                \cup {<<entry("n", 6, 0, FALSE, 0), entry("n", 7, 0, FALSE, 0)>>,
                      <<entry("a-b", 1, 5, FALSE, 0)>>}
        allOfWeek ==
            stars \cup valuesOfWeek
                \cup {<<entry("dL", d, 0, FALSE, 0)>> : d \in 0..7}
                \cup {<<entry("d#n", d, n, FALSE, 0)>> : d \in 0..7, n \in 1..5}
    IN  {spec(dom, dow) : dom \in stars, dow \in allOfWeek}
        \cup {spec(dom, dow) : dom \in allOfMonth, dow \in stars}
        \cup {spec(dom, dow) : dom \in valuesOfMonth, dow \in valuesOfWeek}

\* Seven fields, one of which is an entry with a step: after '*', after the
\* field's first value, after a value past its last, and after the span of
\* all its values; the steps are those around 1 and around max - min.  And
\* specs of five fields and of four.
StepSpecs ==
    LET parts(fp) == {entry("*", 0, 0, TRUE, 0), entry("n", fp.min, 0, TRUE, 0),
                      entry("n", fp.max + 1, 0, TRUE, 0),
                      entry("a-b", fp.min, fp.max, TRUE, 0)}
        steps(fp) == {0, 1, fp.max - fp.min, fp.max - fp.min + 1}
    IN  UNION {{[i \in 1..7 |-> IF i = k THEN <<[e EXCEPT !.step = s]>> ELSE star] :
                   e \in parts(fieldParsers[k]), s \in steps(fieldParsers[k])} :
               k \in 1..7}
        \cup {[i \in 1..5 |-> star], [i \in 1..4 |-> star]}

\* The months whose days are computed: every length of a month begins on
\* every day of the week in these years.
MonthYears == 2012..2036

\* Parse is called with a spec.
ParseCall ==
    /\ call = NoCall
    /\ \E fields \in DaySpecs \cup StepSpecs :
          call' = [op |-> "parse", fields |-> fields, pc |-> "called",
                   result |-> ParseError, year |-> 0, month |-> 0, days |-> {}]
    /\ UNCHANGED otherVars

\* Parse returns the expression or the error, unless it panics.
ParseReturn ==
    /\ call # NoCall
    /\ call.op = "parse"
    /\ call.pc = "called"
    /\ call' = [call EXCEPT !.pc = "returned", !.result = Parse(call.fields)]
    /\ UNCHANGED otherVars

\* The days of a month on which the parsed expression fires are computed.
MonthDays ==
    /\ call # NoCall
    /\ call.op = "parse"
    /\ call.pc = "returned"
    /\ call.result.status = "ok"
    /\ \E year \in MonthYears : \E month \in monthsMask :
          call' = [call EXCEPT
                      !.pc = "days", !.year = year, !.month = month,
                      !.days = calculateActualDaysOfMonth(call.result.expr, year, month)]
    /\ UNCHANGED otherVars

ParseNext ==
    \/ ParseCall
    \/ ParseReturn
    \/ MonthDays

\* The parser and the days of a month evaluated on their own.
ParseSpec == Start({"log"}) /\ [][ParseNext]_vars

\* ---------------------------------------------------------- IndSchedule
\* IndSchedule(schedule, f, panicHandler): a goroutine of its own that asks
\* the schedule for its instants and starts f.  The schedule is a list of
\* instants; now is time.Now(), launches counts the go safeRun() statements
\* and instants the results of schedule.Next other than the zero time.
IndStart ==
    /\ call = NoCall
    /\ \E times \in SUBSET Instants :
          call' = [op |-> "ind", schedule |-> times, now |-> 1, next |-> 1,
                   pc |-> "for", launches |-> 0, instants |-> 0]
    /\ UNCHANGED otherVars

\* The goroutine from the test of its for statement: the exit when next is
\* the zero time; else next = schedule.Next(next), d := next.Sub(time.Now()),
\* and with d < 0 go safeRun() and continue, with d >= 0 on to the select.
IndLoop ==
    /\ call # NoCall /\ call.op = "ind" /\ call.pc = "for"
    /\ LET t == whNext(call.schedule, call.next)
           d == t - call.now
           got == IF IsZero(t) THEN call.instants ELSE call.instants + 1
       IN  IF IsZero(call.next) THEN call' = [call EXCEPT !.pc = "exited"]
           ELSE IF d < 0
                THEN call' = [call EXCEPT !.next = t, !.instants = got,
                                          !.launches = @ + 1]
                ELSE call' = [call EXCEPT !.next = t, !.instants = got,
                                          !.pc = "select"]
    /\ UNCHANGED otherVars

\* The select, case <-timer.C: the instant has come, go safeRun().
IndTimer ==
    /\ call # NoCall /\ call.op = "ind" /\ call.pc = "select"
    /\ call.next <= call.now
    /\ call' = [call EXCEPT !.launches = @ + 1, !.pc = "for"]
    /\ UNCHANGED otherVars

\* The select, case <-ctx.Done(): the cancel function was called; return.
IndCancel ==
    /\ call # NoCall /\ call.op = "ind" /\ call.pc = "select"
    /\ call' = [call EXCEPT !.pc = "exited"]
    /\ UNCHANGED otherVars

\* Time passes, up to one instant past the last of the schedule.
IndTick ==
    /\ call # NoCall /\ call.op = "ind"
    /\ call.now <= MaxInstant
    /\ call' = [call EXCEPT !.now = @ + 1]
    /\ UNCHANGED otherVars

IndNext == IndStart \/ IndLoop \/ IndTimer \/ IndCancel \/ IndTick

IndSpec == Start({"log"}) /\ [][IndNext]_vars

\* ----------------------------------------------------------- lockedTime
\* One lockedTime (the prevTime or nextTime of a job) with the dispatch loop
\* writing it and an observer reading it.  A time is its two words, wall
\* (the part below the second, for the times the scheduler makes) and ext (the
\* seconds); the zero time is <<0, 0>>.
MaxWall == 1
MaxExt == 2
WallExt == {<<w, e>> : w \in 0..MaxWall, e \in 1..MaxExt}

\* The job is built: its lockedTime has Go's zero value, nothing is in
\* progress.  written is the set of times stored so far, whole.
TimeStart ==
    /\ call = NoCall
    /\ call' = [op |-> "time", wall |-> 0, ext |-> 0, written |-> {<<0, 0>>},
                setPc |-> "idle", t |-> <<0, 0>>,
                getPc |-> "idle", temp |-> <<0, 0>>]
    /\ UNCHANGED otherVars

\* lockedTime.set(t) in the dispatch loop, a statement a step:
\* atomic.StoreUint64(&lt.wall, temp.wall), then
\* atomic.StoreInt64(&lt.ext, temp.ext).  Times are set in rising order.
lockedTimeSet ==
    /\ call # NoCall /\ call.op = "time"
    /\ \/ /\ call.setPc = "idle"
          /\ \E t \in WallExt :
                /\ \A u \in call.written : u[2] < t[2] \/ (u[2] = t[2] /\ u[1] < t[1])
                /\ call' = [call EXCEPT !.wall = t[1], !.t = t, !.setPc = "ext",
                                        !.written = @ \cup {t}]
       \/ /\ call.setPc = "ext"
          /\ call' = [call EXCEPT !.ext = call.t[2], !.setPc = "idle"]
    /\ UNCHANGED otherVars

\* lockedTime.get() in the goroutine of an observer, a statement a step:
\* temp.wall = atomic.LoadUint64(&lt.wall), then
\* temp.ext = atomic.LoadInt64(&lt.ext) and the return of temp.
lockedTimeGet ==
    /\ call # NoCall /\ call.op = "time"
    /\ \/ /\ call.getPc \in {"idle", "returned"}
          /\ call' = [call EXCEPT !.temp = <<call.wall, 0>>, !.getPc = "ext"]
       \/ /\ call.getPc = "ext"
          /\ call' = [call EXCEPT !.temp = <<call.temp[1], call.ext>>,
                                  !.getPc = "returned"]
    /\ UNCHANGED otherVars

TimeNext == TimeStart \/ lockedTimeSet \/ lockedTimeGet

TimeSpec == Start({"log"}) /\ [][TimeNext]_vars

\* ------------------------------------------------------------ properties
\* The Cancel send that ends in this step on handle j is the application's.
fromAppCancel(j) == appCancel = j /\ appCancel' = 0

\* A Cancel send on handle j ends in this step.
CancelEnds(j) ==
    \/ appCancel = j /\ appCancel' = 0
    \/ panicHandler = "cancel" /\ handling'[j] < handling[j]

\* The loop takes a Cancel send on handle j from s.remove in this step.
CancelDelivered(j) == loopPc = "select" /\ loopPc' = "top" /\ CancelEnds(j)

\* C1: once ShutdownAndWait has returned, a Schedule call whose schedule has a
\* first fire time ends with the 'scheduler is terminated' error and without
\* a handle; its job enters neither the heap nor a worker; the caller does not
\* panic, and its send is never left waiting: s.add is closed under it.
C1_SubmitAfterShutdown ==
    [][waitPc' = "returned" =>
         /\ jobs' = jobs
         /\ \A j \in JobIds :
              /\ subPc[j] # "ok" => subPc'[j] # "ok"
              /\ subPc[j] = "sending" /\ subPc'[j] # "sending" => subPc'[j] = "terminated"
              /\ subPc'[j] = "sending" => "add" \in closed'
              /\ running'[j] <= running[j]
         /\ "Schedule" \notin escaped']_vars

\* The Schedule call of a periodic job has ended in the error on a scheduler
\* whose ShutdownAndWait has returned.
C1_Witness ==
    /\ waitPc = "returned"
    /\ \E j \in JobIds : subPc[j] = "terminated" /\ schelule[j].kind = "period"

\* C2: once the loop has received Cancel's send on a handle, the handle is out
\* of the heap (index -1) and stays out, no execution of its job is launched
\* any more, and the step that delivers the cancel ends no execution that is
\* in flight.
C2_CancelStopsFirings ==
    [][\A j \in JobIds :
         /\ cancelled'[j] => index'[j] = -1 /\ j \notin Range(jobs')
         /\ cancelled[j] => running'[j] <= running[j]
         /\ CancelDelivered(j) => running' = running]_vars

\* A cancelled periodic job with an execution still in flight, at an instant
\* when it would have been due again.
C2_Witness ==
    \E j \in JobIds :
       /\ cancelled[j]
       /\ running[j] > 0
       /\ schelule[j].kind = "period"
       /\ next[j] <= clock
       /\ loopPc = "select"

\* C3: a Cancel delivered for a handle that is not enqueued (cancelled before,
\* or popped after its last instant: index -1) leaves the heap, every index
\* and every next fire time as they were.
C3_CancelIdempotent ==
    [][\A j \in JobIds :
         CancelDelivered(j) /\ (cancelled[j] \/ j \notin Range(jobs)) =>
            /\ index[j] = -1
            /\ jobs' = jobs
            /\ index' = index
            /\ next' = next]_vars

\* A second Cancel of a handle is about to be delivered while another job is
\* enqueued.
C3_Witness ==
    \E j \in JobIds :
       /\ cancelled[j]
       /\ appCancel = j
       /\ loopPc = "select"
       /\ jobs # <<>>

\* C4: a Cancel that finds the scheduler terminated returns without a panic
\* in its caller and changes nothing of the scheduler; it is not left waiting,
\* for s.remove is closed or the loop is on its way to closing it.
C4_CancelAfterTermination ==
    [][/\ \A j \in JobIds :
            terminated /\ CancelEnds(j) =>
               /\ UNCHANGED <<loopVars, running, wg, subPc, cancelled>>
               /\ "Cancel" \notin escaped'
       /\ terminated' => "remove" \in closed' \/ loopPc' \in {"close_add", "close_remove"}
       /\ "Cancel" \notin escaped']_vars

\* The application is in Cancel on a scheduler whose loop has exited.
C4_Witness == loopPc = "done" /\ appCancel # 0 /\ jobs # <<>>

\* The heap's back-references are in place: every slot's handle carries the
\* number of its slot.
IndexConsistent == \A i \in 1..Len(jobs) : index[jobs[i]] = i - 1

C6_EmptyAfterShutdown ==
    [][waitPc' = "returned" =>
         /\ count' = 0
         /\ jobsPc' = "sending" => "snapshot" \in closed'
         /\ (jobsPc = "sending" /\ jobsPc' = "returned") => jobsResult' = <<>>
         /\ "Jobs" \notin escaped']_vars

\* Jobs() is called after ShutdownAndWait returned with a job left in the heap.
C6_Witness ==
    /\ waitPc = "returned"
    /\ jobsPc = "sending"
    /\ jobs # <<>>
    /\ count = 0

\* C7: from the exit of the dispatch loop on, and from the return of
\* ShutdownAndWait on, no job execution is launched and the wait group is
\* never added to.
C7_NoLaunchAfterExit ==
    [][(loopPc = "done" \/ waitPc = "returned") =>
          /\ \A j \in JobIds : running'[j] <= running[j]
          /\ wg' <= wg]_vars

\* ShutdownAndWait has returned, and the deadline of a job that was left in
\* the heap has come.
C7_Witness ==
    /\ waitPc = "returned"
    /\ \E j \in Range(jobs) : next[j] <= clock /\ next[j] > StartTime

\* C8: the wait group's counter is never negative, and when ShutdownAndWait
\* has returned the dispatch loop has exited, no job body is running and the
\* counter is zero.
C8_WaitCoversWorkers ==
    /\ wg >= 0
    /\ waitPc = "returned" =>
          /\ loopPc = "done"
          /\ wg = 0
          /\ \A j \in JobIds : running[j] = 0

\* ShutdownAndWait has returned on a scheduler that had launched a job: the
\* job fired its only instant and was popped.
C8_Witness ==
    /\ waitPc = "returned"
    /\ \E j \in JobIds : subPc[j] = "ok" /\ index[j] = -1 /\ ~cancelled[j]

\* No caller is blocked in a send on s.add, s.remove or s.snapshot.
NoneBlocked ==
    /\ \A j \in JobIds : subPc[j] # "sending"
    /\ appCancel = 0
    /\ jobsPc \notin {"sending", "receiving"}
    /\ panicHandler = "cancel" => \A j \in JobIds : handling[j] = 0

\* C9: once the context is cancelled (Shutdown, ShutdownAndWait, or the parent
\* context), the dispatch loop comes to its exit with terminated set and the
\* three channels closed, whatever the job bodies in flight do, and the
\* callers blocked in Schedule, Cancel and Jobs are released.
C9_ShutdownCompletes ==
    ctxDone ~> (loopPc = "done" /\ terminated /\ closed = Channels /\ NoneBlocked)

\* The loop has exited while a job body is still running.
C9_Witness ==
    /\ loopPc = "done"
    /\ closed = Channels
    /\ \E j \in JobIds : running[j] > 0

\* C10: a panic of a job body ends that execution and starts the panic
\* handler on that job's handle, and nothing else: the loop, the heap and the
\* other jobs are as before.  A handler that only logs returns without a
\* change either, so the job stays enqueued and fires again.
C10_PanicContained ==
    [][\A j \in JobIds :
         /\ handling'[j] > handling[j] =>
              /\ running'[j] = running[j] - 1
              /\ UNCHANGED <<loopVars, cancelled>>
              /\ \A k \in JobIds \ {j} :
                    running'[k] = running[k] /\ handling'[k] = handling[k]
         /\ (panicHandler = "log" /\ handling'[j] < handling[j]) =>
              UNCHANGED <<loopVars, cancelled, running, wg>>]_vars

\* The logging handler is at work on a job that is still enqueued and has
\* fired again.
C10_Witness ==
    /\ panicHandler = "log"
    /\ \E j \in Range(jobs) : handling[j] > 0 /\ running[j] > 0 /\ ~cancelled[j]

C12_HandlerPanicSwallowed == "safeRun" \notin escaped

\* Handle j was created by After / by Period.
IsAfterJob(j) == schelule[j].kind = "after"
IsPeriodJob(j) == schelule[j].kind = "period"

\* Schedule computes the first fire time of handle j in this step.
Submits(j) == subPc[j] = "idle" /\ subPc'[j] = "sending"

\* C13: a job submitted with After(delay) gets the instant submit time +
\* delay and keeps it; it is launched one execution at a time, not before
\* that instant, and the step that launches it pops it from the heap (index
\* -1, the heap shorter); a handle out of the heap is never launched, so there
\* is no second launch.
C13_AfterFiresOnce ==
    [][\A j \in JobIds :
         /\ (Submits(j) /\ schelule'[j].kind = "after") =>
               next'[j] = clock + schelule'[j].delay
         /\ (IsAfterJob(j) /\ subPc[j] \in {"sending", "ok"}) => next'[j] = next[j]
         /\ (IsAfterJob(j) /\ running'[j] > running[j]) =>
               /\ running'[j] = running[j] + 1
               /\ j \in Range(jobs)
               /\ next[j] <= clock
               /\ index'[j] = -1
               /\ j \notin Range(jobs')
               /\ Len(jobs') < Len(jobs)
         /\ (IsAfterJob(j) /\ index[j] = -1) => running'[j] <= running[j] /\ index'[j] = -1
         /\ j \notin Range(jobs) => running'[j] <= running[j]]_vars

\* An After job has been launched and popped, and the loop has published the
\* smaller count, at its instant or later.
C13_Witness ==
    \E j \in JobIds :
       /\ IsAfterJob(j)
       /\ running[j] = 1
       /\ index[j] = -1
       /\ ~cancelled[j]
       /\ loopPc = "select"
       /\ count = Len(jobs)

\* The executions of handle j that this step launches.
Launched(j) == IF running'[j] > running[j] THEN running'[j] - running[j] ELSE 0

\* C14: a job submitted with Period(initialDelay, period) at instant p gets
\* p + initialDelay, and every launch moves its scheduled instant on by one
\* period from the scheduled instant before, whatever the instant of the
\* dispatch and whatever the executions in flight: a step that launches k
\* executions moves it by k periods, past the instant the timer was due at,
\* and no other step moves it.
C14_PeriodInstants ==
    [][\A j \in JobIds :
         /\ (Submits(j) /\ schelule'[j].kind = "period") =>
               next'[j] = clock + schelule'[j].delay
         /\ IsPeriodJob(j) =>
               /\ next'[j] = next[j] + Launched(j) * schelule[j].period
               /\ schelule'[j] = schelule[j]
               /\ Launched(j) > 0 =>
                     /\ next[j] <= clock
                     /\ next'[j] > timer
                     /\ j \in Range(jobs')]_vars

\* The loop came late to a periodic job: it launched two instants in one
\* round, and both executions are in flight.
C14_Witness ==
    \E j \in JobIds :
       /\ IsPeriodJob(j)
       /\ running[j] = 2
       /\ next[j] = StartTime + schelule[j].delay + 2 * schelule[j].period
       /\ clock = StartTime + 1

\* The call that creates handle j ends or reaches its send in this step.
CallLeavesIdle(j) == subPc[j] = "idle" /\ subPc'[j] # "idle"

\* C15: a Schedule call whose schedule has no first instant returns the
\* 'schedule is empty' error at once: nothing of the loop, the heap, the
\* count or the workers changes, the handle never reaches the loop, and a
\* handle goes to the send on s.add only with a first fire time that is not
\* the zero time.
C15_EmptySchedule ==
    [][\A j \in JobIds :
         /\ (CallLeavesIdle(j) /\ subPc'[j] = "empty") =>
               UNCHANGED <<loopVars, workVars, snapVars, appCancel, cancelled, escaped>>
         /\ subPc[j] = "empty" =>
               /\ subPc'[j] = "empty"
               /\ j \notin Range(jobs')
               /\ running'[j] = 0
         /\ (CallLeavesIdle(j) /\ subPc'[j] = "sending") => next'[j] # ZeroTime
         /\ j \in Range(jobs') => next'[j] # ZeroTime]_vars

\* A submission was refused as empty while another job is enqueued and counted.
C15_Witness ==
    /\ \E j \in JobIds : subPc[j] = "empty"
    /\ jobs # <<>>
    /\ count = Len(jobs)

\* C16: Period refuses exactly the periods below 1 ms.  A refused call
\* changes nothing of the loop, the heap, the count or the workers, and its
\* handle never reaches the loop; a call with a period of 1 ms or more goes
\* to the send on s.add, and on a scheduler that is not terminated the send
\* ends with the handle enqueued.
C16_PeriodFloor ==
    [][\A j \in JobIds :
         /\ (CallLeavesIdle(j) /\ subPc'[j] = "period_error") =>
               /\ schelule'[j].period < minInterval
               /\ UNCHANGED <<jobs, index, next, count, loopPc, terminated, closed, timer, workVars, snapVars, appCancel, cancelled, escaped>>
         /\ subPc[j] = "period_error" =>
               /\ subPc'[j] = "period_error"
               /\ j \notin Range(jobs')
               /\ running'[j] = 0
         /\ (CallLeavesIdle(j) /\ schelule'[j].kind = "period"
               /\ schelule'[j].period >= minInterval) => subPc'[j] = "sending"
         /\ (IsPeriodJob(j) /\ subPc[j] = "sending" /\ subPc'[j] # "sending" /\ ~terminated) =>
               subPc'[j] = "ok" /\ j \in Range(jobs')
         /\ (IsPeriodJob(j) /\ j \in Range(jobs')) => schelule'[j].period >= minInterval]_vars

\* A period below the floor was refused and a period of just 1 ms accepted.
C16_Witness ==
    /\ \E j \in JobIds : subPc[j] = "period_error" /\ schelule[j].period < minInterval
    /\ \E j \in Range(jobs) : IsPeriodJob(j) /\ schelule[j].period = minInterval
                                 /\ subPc[j] = "ok"

\* The least instant of a set after t, or the zero time when there is none.
FirstAfter(S, t) == whNext(S, t)

\* C17 as stated: Union(L, R).Next(t) is the earlier of the two sides' next
\* instants, a terminal side counting as later than every instant.
C17_UnionEarlier ==
    (call # NoCall /\ call.op = "union" /\ call.pc = "returned") =>
       call.result.time = FirstAfter(call.l \cup call.r, call.t)

\* C18 as stated: Intersect(L, R).Next(t) is the first instant after t at
\* which both sides fire, or terminal.
C18_IntersectBoth ==
    (call # NoCall /\ call.op = "intersect" /\ call.pc = "returned") =>
       call.result.time = FirstAfter(call.l \cap call.r, call.t)

\* C19 as stated: Minus(L, R).Next(t) returns, and what it returns is the
\* first instant after t at which L fires and R does not, or terminal.
C19_MinusFirst ==
    (call # NoCall /\ call.op = "minus") =>
       /\ compositeNext(call.op, call.l, call.r, call.t).returns
       /\ call.pc = "returned" => call.result.time = FirstAfter(call.l \ call.r, call.t)

\* Instant a is earlier than instant b.
Before(a, b) ==
    IF a.Year # b.Year THEN a.Year < b.Year
    ELSE IF a.Month # b.Month THEN a.Month < b.Month
    ELSE IF a.Day # b.Day THEN a.Day < b.Day
    ELSE IF a.Hour # b.Hour THEN a.Hour < b.Hour
    ELSE IF a.Minute # b.Minute THEN a.Minute < b.Minute
    ELSE IF a.Second # b.Second THEN a.Second < b.Second
    ELSE a.Nanosecond < b.Nanosecond

\* The instant without its part of a second.
Truncate(t) == [t EXCEPT !.Nanosecond = 0]

\* The whole-second instants of one month that match every field of the
\* expression: the year, the month, a day of that month's effective day set,
\* the hour, the minute and the second.
MatchingInMonth(expr, y, m) ==
    IF y \in expr.years /\ m \in expr.months
    THEN {Date(y, m, d, h, mi, s) :
             d \in calculateActualDaysOfMonth(expr, y, m), h \in expr.hours,
             mi \in expr.minutes, s \in expr.seconds}
    ELSE {}

\* Some instant after instant a, up to the end of 2099, matches.
MatchesAfter(expr, a) ==
    \E y \in {x \in expr.years : a.Year <= x /\ x <= 2099} : \E m \in expr.months :
        \E t \in MatchingInMonth(expr, y, m) : Before(a, t)

\* The matching instants after instant a and before instant b, which lie in
\* the months from a's to b's.
MatchingBetween(expr, a, b) ==
    LET inYear(y) ==
            UNION {MatchingInMonth(expr, y, m) :
                      m \in {x \in expr.months : /\ (y = a.Year => a.Month <= x)
                                                  /\ (y = b.Year => x <= b.Month)}}
    IN  {t \in UNION {inYear(y) : y \in {x \in expr.years : a.Year <= x /\ x <= b.Year}} :
            Before(a, t) /\ Before(t, b)}

\* C20: what Next returns for an instant other than the zero time is, when
\* it is an instant at all, a whole second that matches every field of the
\* expression and lies after the instant it was called with, truncated to
\* the second; and when such a second exists, Next returns the earliest one.
C20_NextIsLeast ==
    (call # NoCall /\ call.op = "cron" /\ call.pc = "returned" /\ call.t # zeroTime) =>
       LET from == Truncate(call.t)
       IN  IF call.result # zeroTime
           THEN /\ call.result \in MatchingInMonth(call.expr, call.result.Year,
                                                    call.result.Month)
                /\ Before(from, call.result)
                /\ MatchingBetween(call.expr, from, call.result) = {}
           ELSE ~MatchesAfter(call.expr, from)

\* Next was called in the last second of February and returned the first
\* second of March.
C20_Witness ==
    /\ call # NoCall /\ call.op = "cron" /\ call.pc = "returned"
    /\ call.t.Month = 2 /\ call.t.Day = 28 /\ call.t.Hour = 23 /\ call.t.Second = 59
    /\ call.t.Year = 2013
    /\ call.result = Date(2013, 3, 1, 0, 0, 0)

\* An Expression.Next call has returned.
CronReturned == call # NoCall /\ call.op = "cron" /\ call.pc = "returned"

\* C21: for an instant other than the zero time, Next returns the zero time
\* or an instant strictly later than the one it was called with, so the
\* instants of an iteration t := Next(t) increase strictly until terminal.
C21_StrictlyLater ==
    (CronReturned /\ call.t # zeroTime) =>
       call.result = zeroTime \/ Before(call.t, call.result)

\* Next was called with an instant the expression fires at, in an iteration,
\* and returned a later instant of another year.
C21_Witness ==
    /\ CronReturned
    /\ call.t \in MatchingInMonth(call.expr, call.t.Year, call.t.Month)
    /\ call.result # zeroTime
    /\ call.result.Year > call.t.Year

\* C22: Next returns the zero time exactly when it is called with the zero
\* time or no instant after the one it is called with matches up to the end
\* of 2099; what it returns otherwise has a year of 1970..2099 that is in the
\* expression's years.
C22_TerminalExactly ==
    CronReturned =>
       /\ call.result = zeroTime <=>
              (call.t = zeroTime \/ ~MatchesAfter(call.expr, Truncate(call.t)))
       /\ call.result # zeroTime =>
              call.result.Year \in 1970..2099 /\ call.result.Year \in call.expr.years

\* An expression of every year was asked in 2099 and the search passed the
\* last year.
C22_Witness ==
    /\ CronReturned
    /\ call.expr.years = allYears
    /\ call.t.Year = 2099
    /\ call.result = zeroTime

\* Parse has returned or panicked.
ParseEnded == call # NoCall /\ call.op = "parse" /\ call.pc = "returned"

\* The part of an entry before its step is well formed for the field.
LegalPart(fp, e) ==
    \/ e.form = "*"
    \/ e.form = "n" /\ e.a \in fp.min..fp.max
    \/ e.form = "a-b" /\ e.a \in fp.min..fp.max /\ e.b \in fp.min..fp.max

\* C23: a spec of seven fields with an entry whose step s is not in
\* 1..max-min of its field ends in the error and without an expression,
\* whatever stands before the step; an entry with a step in 1..max-min after
\* a well-formed part is accepted.
C23_StepRange ==
    (ParseEnded /\ Len(call.fields) = 7) =>
       \A k \in 1..7 : \A i \in 1..Len(call.fields[k]) :
          LET e == call.fields[k][i]
              fp == fieldParsers[k]
          IN  e.slash =>
                 /\ (e.step < 1 \/ e.step > fp.max - fp.min) => call.result = ParseError
                 /\ (e.step \in 1..(fp.max - fp.min) /\ LegalPart(fp, e)) =>
                        call.result.status = "ok"

\* '*/59' in the seconds field was accepted and fires at seconds 0 and 59.
C23_Witness ==
    /\ ParseEnded /\ Len(call.fields) = 7
    /\ call.fields[1] = <<entry("*", 0, 0, TRUE, 59)>>
    /\ call.result.status = "ok"
    /\ call.result.expr.seconds = {0, 59}

\* The days of a month have been computed for a parsed spec of six fields;
\* its day-of-month field, its day-of-week field, and the month's calendar.
DaysComputed ==
    call # NoCall /\ call.op = "parse" /\ call.pc = "days" /\ Len(call.fields) = 6
DayOfMonthField == call.fields[4]
DayOfWeekField == call.fields[6]
LastDay == daysIn(call.year, call.month)
WeekdayOf(d) == Weekday(call.year, call.month, d)

\* A field is '*' or '?'; a field is a list of plain values and spans.
Unrestricted(field) == Len(field) = 1 /\ field[1].form \in {"*", "?"}
Plain(field) == \A i \in 1..Len(field) : field[i].form \in {"n", "a-b"}
ValuesOf(field) ==
    UNION {IF field[i].form = "n" THEN {field[i].a} ELSE field[i].a..field[i].b :
              i \in 1..Len(field)}

\* The days of the month that fall on a weekday of the set, 7 being Sunday.
DaysOnWeekdays(W) == {d \in 1..LastDay : \E w \in W : w % 7 = WeekdayOf(d)}

\* C25 as stated: with the day of month unrestricted and plain weekdays W,
\* the expression fires on exactly the days of the month whose weekday is in
\* W, whatever the month's length and first weekday.
C25_PlainWeekdays ==
    (DaysComputed /\ Unrestricted(DayOfMonthField) /\ Plain(DayOfWeekField)) =>
       call.days = DaysOnWeekdays(ValuesOf(DayOfWeekField))

\* C24 as stated: the days of a month are all its days when both fields are
\* unrestricted, the day-of-month values when only the day of month is
\* restricted, the days on the given weekdays when only the day of week is
\* restricted, both together when both are restricted, and never a day past
\* the month's last.
C24_DayUnion ==
    DaysComputed =>
       LET ofMonth == ValuesOf(DayOfMonthField) \cap 1..LastDay
           ofWeek == DaysOnWeekdays(ValuesOf(DayOfWeekField))
       IN  /\ call.days \subseteq 1..LastDay
           /\ (Unrestricted(DayOfMonthField) /\ Unrestricted(DayOfWeekField)) =>
                  call.days = 1..LastDay
           /\ (Plain(DayOfMonthField) /\ Unrestricted(DayOfWeekField)) =>
                  call.days = ofMonth
           /\ (Unrestricted(DayOfMonthField) /\ Plain(DayOfWeekField)) =>
                  call.days = ofWeek
           /\ (Plain(DayOfMonthField) /\ Plain(DayOfWeekField)) =>
                  call.days = ofMonth \cup ofWeek

\* The field is the one entry of the given form.
IsEntry(field, form) == Len(field) = 1 /\ field[1].form = form

\* C26: 'nW' with n up to the month's last day, the day of week
\* unrestricted, fires on one day: n itself when it is a Monday..Friday, the
\* Friday before a Saturday (the Monday after, day 3, when n is 1), the
\* Monday after a Sunday (the Friday before, when n is the last day); that
\* day is no Saturday or Sunday and lies in the month.
C26_NearestWeekday ==
    (DaysComputed /\ IsEntry(DayOfMonthField, "nW") /\ Unrestricted(DayOfWeekField)
        /\ DayOfMonthField[1].a <= LastDay) =>
       LET n == DayOfMonthField[1].a
           nearest == IF WeekdayOf(n) = Saturday THEN (IF n = 1 THEN n + 2 ELSE n - 1)
                      ELSE IF WeekdayOf(n) = Sunday
                      THEN (IF n = LastDay THEN n - 2 ELSE n + 1)
                      ELSE n
       IN  /\ call.days = {nearest}
           /\ WeekdayOf(nearest) \notin {Saturday, Sunday}
           /\ nearest \in 1..LastDay

\* '30W' in a month of 30 days that ends on a Sunday fired on the 28th.
C26_Witness ==
    /\ DaysComputed /\ IsEntry(DayOfMonthField, "nW") /\ Unrestricted(DayOfWeekField)
    /\ DayOfMonthField[1].a = 30 /\ LastDay = 30 /\ WeekdayOf(30) = Sunday
    /\ call.days = {28}

\* C27 as stated: 'dL' with the day of month unrestricted fires on exactly
\* one day of the month, the last one whose weekday is d.
C27_LastWeekday ==
    (DaysComputed /\ Unrestricted(DayOfMonthField) /\ IsEntry(DayOfWeekField, "dL")) =>
       LET on == DaysOnWeekdays({DayOfWeekField[1].a})
       IN  call.days = {d \in on : \A other \in on : other <= d}

\* C28 as stated: 'd#n' with the day of month unrestricted fires exactly on
\* the n-th day of the month whose weekday is d, day
\* 1 + ((d - firstWeekday) mod 7) + 7 * (n - 1), when the month has that day,
\* and on no day otherwise.
C28_NthWeekday ==
    (DaysComputed /\ Unrestricted(DayOfMonthField) /\ IsEntry(DayOfWeekField, "d#n")) =>
       LET d == DayOfWeekField[1].a
           n == DayOfWeekField[1].b
           date == 1 + ((d - WeekdayOf(1)) % 7) + 7 * (n - 1)
       IN  call.days = {date} \cap 1..LastDay

\* C29: in every reachable state the heap is ordered: the fire time of every
\* slot but the root is no earlier than that of its parent slot, and so the
\* root holds a job with the earliest fire time of all.
C29_HeapOrder ==
    /\ \A i \in 1..(Len(jobs) - 1) : next[At(Queue, i)] >= next[At(Queue, Parent(i))]
    /\ \A i \in 0..(Len(jobs) - 1) : next[At(Queue, 0)] <= next[At(Queue, i)]

\* A period job that was submitted first and has been launched lies below a
\* job submitted after it: the update in place moved it down from the root.
C29_Witness ==
    /\ jobs = <<2, 1>>
    /\ schelule[1].kind = "period"
    /\ running[1] > 0
    /\ next[2] < next[1]

\* C30: in every reachable state each job in the heap has the index of the
\* slot that holds it, each job that was pushed and is no longer in the heap
\* (cancelled, or popped after its schedule ended) has index -1, and no job
\* is in two slots.
C30_BackReference ==
    /\ \A i \in 0..(Len(jobs) - 1) : index[At(Queue, i)] = i
    /\ \A j \in JobIds : (subPc[j] = "ok" /\ j \notin Range(jobs)) => index[j] = -1
    /\ Cardinality(Range(jobs)) = Len(jobs)

\* The first job was cancelled out of the root with the second behind it: the
\* swap and the ejection rewrote both indexes.
C30_Witness ==
    /\ jobs = <<2>>
    /\ index[2] = 0
    /\ cancelled[1]
    /\ index[1] = -1
    /\ subPc[1] = "ok"

\* C31: in every reachable state every job in the heap has a next fire time
\* other than the zero time; a job enters the heap only by the push of its
\* submission, so one that was refused at submit or popped when its schedule
\* ended is never in the heap again.
C31_EnqueuedNotTerminal ==
    [][\A j \in JobIds :
         /\ j \in Range(jobs') => ~IsZero(next'[j])
         /\ (j \in Range(jobs') /\ j \notin Range(jobs)) => subPc[j] = "sending"
         /\ subPc[j] = "empty" => j \notin Range(jobs')
         /\ (subPc[j] = "ok" /\ j \notin Range(jobs)) => j \notin Range(jobs')]_vars

\* One submission was refused as empty, and an After job has been popped at
\* its launch: it is out of the heap without a Cancel, its execution is in
\* flight.
C31_Witness ==
    /\ \E j \in JobIds : subPc[j] = "empty"
    /\ \E j \in JobIds :
          /\ subPc[j] = "ok"
          /\ schelule[j].kind = "after"
          /\ index[j] = -1
          /\ ~cancelled[j]
          /\ running[j] > 0

\* The loop takes the timer case in this step.
TimerStep ==
    /\ loopPc = "select" /\ loopPc' = "top"
    /\ subPc' = subPc /\ appCancel' = appCancel /\ handling' = handling
    /\ jobsPc' = jobsPc

\* The instants a schedule gives from t on, up to now, by its own Next.
RECURSIVE InstantsUpTo(_, _, _)
InstantsUpTo(sch, t, now) ==
    IF IsZero(t) \/ t > now THEN <<>>
    ELSE LET r == ScheduleNext(sch, t) IN <<t>> \o InstantsUpTo(r.sched, r.time, now)

\* The launches of a pass that are of job j, as the instants they were due at.
LaunchesOf(launched, j) ==
    LET own == SelectSeq(launched, LAMBDA e : e[1] = j)
    IN  [i \in 1..Len(own) |-> own[i][2]]

\* C32: the timer case starts with a due root and delivers an instant no
\* earlier than the root's fire time; the pass it runs launches, for every
\* job in the heap, exactly the instants of that job up to the instant
\* delivered - each once, none later, none of a job outside the heap - in
\* non-decreasing order of instant over the whole pass, and it ends with the
\* heap empty or its root due after the instant delivered.
C32_DuePass ==
    [][TimerStep =>
         /\ Len(jobs) > 0
         /\ next[jobs[1]] <= timer
         /\ \E now \in timer..clock :
               LET st == runExpiredJobs(now, Pass)
               IN  st.q = Queue' /\ st.running = running' /\ st.wg = wg'
         /\ \A now \in timer..clock :
               LET st == runExpiredJobs(now, Pass)
               IN  (st.q = Queue' /\ st.running = running' /\ st.wg = wg') =>
                     /\ \A j \in JobIds :
                           /\ LaunchesOf(st.launched, j) =
                                 IF j \in Range(jobs)
                                 THEN InstantsUpTo(schelule[j], next[j], now)
                                 ELSE <<>>
                           /\ running'[j] - running[j] = Len(LaunchesOf(st.launched, j))
                     /\ \A i \in 1..Len(st.launched) :
                           /\ st.launched[i][2] <= now
                           /\ i > 1 => st.launched[i - 1][2] <= st.launched[i][2]
                     /\ Len(jobs') = 0 \/ next'[jobs'[1]] > now]_vars

\* A late pass over two jobs: the periodic job had two instants due and the
\* other job one between or with them; all three executions are in flight and
\* the loop is back at its top.
C32_Witness ==
    /\ loopPc = "top"
    /\ \E j, k \in JobIds :
          /\ j # k
          /\ schelule[j].kind = "period"
          /\ running[j] = 2
          /\ running[k] = 1
          /\ j \in Range(jobs)
          /\ next[j] > clock

\* The jobs in the heap whose fire time has come.
DueJobs == {j \in Range(jobs) : next[j] <= clock}

\* C33: at every select with jobs in the heap the timer in force was armed in
\* this iteration for the root's fire time (at once when that has passed), the
\* root being the earliest deadline, whatever add, cancel or snapshot request
\* the iteration before handled; and when jobs in the heap are due the loop
\* comes to a state where none is - each has been launched for its instant
\* (it has left the heap or got a fire time still to come) or cancelled -
\* unless shutdown has begun.
C33_DeadlineKept ==
    /\ [](  (loopPc = "select" /\ Len(jobs) > 0) =>
              /\ next[jobs[1]] <= timer
              /\ timer <= Max(next[jobs[1]], clock)
              /\ \A j \in Range(jobs) : next[jobs[1]] <= next[j])
    /\ DueJobs # {} ~> (DueJobs = {} \/ ctxDone)

\* A job is launched at its instant in the round after the loop has handled a
\* snapshot request and the cancellation of another job.
C33_Witness ==
    /\ jobsPc = "returned"
    /\ \E j, k \in JobIds :
          /\ j # k
          /\ cancelled[k]
          /\ index[k] = -1
          /\ running[k] = 0
          /\ running[j] > 0
          /\ ~ctxDone

\* C36 as stated: the called flag of a job's schedule changes only in a step
\* of the dispatch loop.
C36_LoopOnly ==
    [][\A j \in JobIds : schelule'[j].called # schelule[j].called => TimerStep]_vars

\* C36, amended: the schedule of a job is touched by two tasks, one after the
\* other.  The submitting caller makes the first call of Next inside
\* Schedule, before the send on s.add: that call sets the called flag of an
\* After or Period schedule.  From then on only the dispatch loop touches the
\* schedule, in a timer step and for a job it launches in that step; no step
\* of a worker, of a panic handler or of another call changes it.
C36_CallerThenLoop ==
    [][\A j \in JobIds :
         /\ Submits(j) => (schelule'[j].kind \in {"after", "period"} /\ schelule'[j].called)
         /\ schelule'[j] # schelule[j] =>
               \/ CallLeavesIdle(j)
               \/ /\ TimerStep
                  /\ subPc[j] = "ok"
                  /\ j \in Range(jobs)
                  /\ running'[j] > running[j]]_vars

\* The flag of one job was set by its caller, who is still at the send, and
\* the loop is running a periodic job whose schedule it has asked again.
C36_Witness ==
    \E j, k \in JobIds :
       /\ subPc[k] = "sending"
       /\ schelule[k].called
       /\ subPc[j] = "ok"
       /\ schelule[j].kind = "period"
       /\ running[j] > 0
       /\ next[j] > clock

\* C37: terminated is false as long as the dispatch loop is in its loop; the
\* loop sets it once, on taking the ctx.Done case, and the very next thing it
\* does is to close the channels, so a closed channel implies terminated; it
\* never goes back to false; and each close closes a channel that is still
\* open, one channel a step, however often and from wherever Shutdown and
\* ShutdownAndWait are called.
C37_TerminatedOnce ==
    [][/\ loopPc \in {"top", "select"} => ~terminated
       /\ closed # {} => terminated
       /\ terminated => terminated'
       /\ terminated' # terminated =>
             /\ loopPc = "select" /\ ctxDone
             /\ closed = {} /\ closed' = {}
             /\ loopPc' = "close_add"
       /\ closed' # closed =>
             /\ terminated
             /\ loopPc \in {"close_add", "close_remove", "close_snapshot"}
             /\ \E c \in Channels \ closed : closed' = closed \cup {c}
       /\ (loopPc \in {"close_add", "close_remove", "close_snapshot"} /\ loopPc' # loopPc) =>
             closed' # closed
       /\ loopPc' = "done" => (terminated' /\ closed' = Channels)]_vars

\* The loop has closed all three channels and exited after ShutdownAndWait was
\* called, and its caller has returned.
C37_Witness ==
    /\ terminated
    /\ closed = Channels
    /\ loopPc = "done"
    /\ waitPc = "returned"

\* A call of Minus(l, r).Next or Intersect(l, r).Next is under way, has returned.
LoopingCall(pc) ==
    /\ call # NoCall
    /\ call.op \in {"minus", "intersect"}
    /\ call.pc = pc

\* C39 as stated: every call of Minus(L, R).Next and of Intersect(L, R).Next on
\* schedules of finitely many instants returns, also when R has run out
\* below L's candidate.
C39_NextReturns == LoopingCall("called") ~> LoopingCall("returned")

\* The part of C39 that is about Intersect alone.
C39_IntersectReturns ==
    (call # NoCall /\ call.op = "intersect") =>
       intersectNext(call.l, call.r, call.t).returns

\* C38 as stated: a periodic job submitted with a negative initial delay gets
\* the fire instants of one submitted with initial delay 0, the first being
\* the instant of the submission.
C38_NegativeAsZero ==
    [][\A j \in JobIds :
         (Submits(j) /\ schelule'[j].kind = "period" /\ schelule'[j].delay < 0) =>
            next'[j] = ScheduleNext(periodSchedule(0, schelule'[j].period), clock).time]_vars

\* C38, amended: a periodic job submitted at instant p with a negative initial
\* delay d gets the instants p + d + k * period, the first of them in the
\* past.  Only the wait is as with delay 0: the timer armed for such a root
\* has fired at once.  The pass then launches every instant that is due, each
\* launch moving the job on by one period, so a delay that reaches back a
\* whole period or more makes the first pass launch more instants than it
\* would with delay 0.
C38_NegativeShifts ==
    [][\A j \in JobIds :
         LET neg == schelule'[j].kind = "period" /\ schelule'[j].delay < 0
         IN  /\ (Submits(j) /\ neg) => next'[j] = clock + schelule'[j].delay
             /\ (neg /\ loopPc' = "select" /\ Len(jobs') > 0 /\ jobs'[1] = j
                   /\ next'[j] <= clock') => timer' <= clock'
             /\ (neg /\ subPc[j] = "ok" /\ next'[j] # next[j]) =>
                   /\ TimerStep
                   /\ next'[j] = next[j] + Launched(j) * schelule[j].period
                   /\ next'[j] > timer
                   /\ Launched(j) >= 1]_vars

\* A job submitted with initial delay -1 and period 1 has two executions in
\* flight at the instant of its submission: those of the instant before and
\* of the instant itself.
C38_Witness ==
    \E j \in JobIds :
       /\ schelule[j].kind = "period"
       /\ schelule[j].delay < 0
       /\ clock = StartTime
       /\ running[j] = 2
       /\ next[j] = StartTime + schelule[j].period

\* C35: what PrevTime() and NextTime() read when no update is under way.  At
\* the submission prevTime is the zero time and nextTime the first fire
\* instant; they change only in a step of the loop that launches the job and
\* keeps it in the heap, and then prevTime is the last instant launched and
\* nextTime the schedule's instant after it; so for every job in the heap
\* nextTime is its fire time and prevTime is earlier.
C35_PrevNext ==
    [][\A j \in JobIds :
         /\ Submits(j) =>
               lockedTime'[j] = [prev |-> ZeroTime, next |-> next'[j]]
         /\ (subPc[j] = "ok" /\ lockedTime'[j] # lockedTime[j]) =>
               /\ TimerStep
               /\ Launched(j) > 0
               /\ j \in Range(jobs')
               /\ \E now \in timer..clock :
                     LET own == LaunchesOf(runExpiredJobs(now, Pass).launched, j)
                     IN  /\ Len(own) = Launched(j)
                         /\ lockedTime'[j].prev = own[Len(own)]
               /\ lockedTime'[j].next = ScheduleNext(schelule'[j], lockedTime'[j].prev).time
         /\ (TimerStep /\ Launched(j) > 0 /\ j \in Range(jobs')) =>
               lockedTime'[j].prev >= next[j]
         /\ j \in Range(jobs') =>
               /\ lockedTime'[j].next = next'[j]
               /\ lockedTime'[j].prev < lockedTime'[j].next]_vars

\* A periodic job has been launched twice: its prevTime is the second of the
\* two instants and its nextTime one period later; another job, not yet
\* launched, has the zero time for prevTime.
C35_Witness ==
    \E j, k \in JobIds :
       /\ j \in Range(jobs) /\ k \in Range(jobs)
       /\ schelule[j].kind = "period"
       /\ lockedTime[j].prev = StartTime + schelule[j].delay + schelule[j].period
       /\ lockedTime[j].next = lockedTime[j].prev + schelule[j].period
       /\ lockedTime[k].prev = ZeroTime
       /\ lockedTime[k].next > clock

\* C34 as stated: the time a call of PrevTime() or NextTime() returns is one
\* that a single update wrote in full, or the initial value.
C34_WholeTime ==
    (call # NoCall /\ call.op = "time" /\ call.getPc = "returned") =>
       call.temp \in call.written

\* C40 as stated: IndSchedule starts f once for each instant the schedule
\* gives, and when the schedule gives the zero time the goroutine exits
\* without starting f again: at no time has f been started more often than
\* the schedule has given instants.
C40_LaunchPerInstant ==
    (call # NoCall /\ call.op = "ind") =>
       /\ call.launches <= call.instants
       /\ (call.pc = "exited" /\ IsZero(call.next)) => call.launches = call.instants

====
